---- MODULE Spec2Model ----
(***************************************************************************)
(* PIE - Pun Identification Engine.                                        *)
(*                                                                         *)
(* A model of the analysis pipeline of src/PunID/pie/pie/engine.py         *)
(* (PunIdentificationEngine) with the frame service it imports             *)
(* (src/PunID/pie/pie/framenet_service.py), the validator                  *)
(* (src/PunID/pie/validators.py), the data model (src/PunID/pie/models.py) *)
(* and the NLTK-only frame service of src/PunID/pie/framenet_service.py.   *)
(*                                                                         *)
(* Numbers: a frame distance is kept in tenths (Dist(1) is 1.0, Dist(-1)   *)
(* the sentinel -1) and a confidence in thousandths (Conf1 is 1.0), so     *)
(* that distance * 0.04 is the integer 4 * tenths, in thousandths.         *)
(***************************************************************************)
EXTENDS Integers, Sequences, FiniteSets, TLC

\* Largest number of candidates the "puns" list of one LLM response holds.
MaxPuns == 2
\* Largest distance (in tenths) an estimation response states after DISTANCE:.
MaxEstTenths == 125
\* The largest number of sentences in one analyze_batch call.
MaxBatch == 2

Min(a, b) == IF a <= b THEN a ELSE b

\* Python's None.
None == [none |-> TRUE]

\* n as a distance, in tenths.
Dist(n) == 10 * n

\* An exception leaving a call, and a normal return.
Raise(exc) == [raised |-> TRUE, exc |-> exc]
Return(v) == [raised |-> FALSE, value |-> v]

(***************************************************************************)
(* The FrameNet corpus behind nltk.corpus.framenet: the frames it knows,   *)
(* its frame relations and its lexical units.  "Unknown" is no frame of    *)
(* the corpus; it is the name the engine uses for a missing frame hint.    *)
(***************************************************************************)
CorpusFrames == {"Motion", "Travel", "Commerce", "Food"}
FrameNames == CorpusFrames \cup {"Unknown"}

CorpusRelations ==
  { [type |-> "Inheritance", superFrameName |-> "Motion", subFrameName |-> "Travel"],
    [type |-> "Using", superFrameName |-> "Motion", subFrameName |-> "Commerce"] }

CorpusLUs ==
  << [name |-> "fly.v", word |-> "fly", pos |-> "v", frame |-> "Motion"],
     [name |-> "fly.n", word |-> "fly", pos |-> "n", frame |-> "Food"],
     [name |-> "trip.n", word |-> "trip", pos |-> "n", frame |-> "Travel"] >>

Words == {"fly", "FLY", "pun"}
PosTags == {"", "v"}

\* str.lower() on the words of the model.
LowerWord(w) == IF w = "FLY" THEN "fly" ELSE w

\* models.FrameInfo
FrameInfo(name, definition, lu, elements) ==
  [frame_name |-> name, frame_definition |-> definition,
   lexical_unit |-> lu, frame_elements |-> elements]

\* models.FrameDistance
FrameDistance(f1, f2, d, dtype, expl) ==
  [sense1_frame |-> f1, sense2_frame |-> f2, distance |-> d,
   distance_type |-> dtype, explanation |-> expl]

\* The definition and the core frame elements the corpus holds for a frame.
CorpusDefinition(name) == <<"definition of", name>>
CoreElements(name) == <<"Core", name>>

\* fn.frame(name): raises for a name that is no frame of the corpus, and
\* on a corpus that was never loaded (self._fn is None).
FnFrame(loaded, name) ==
  IF ~loaded THEN Raise("AttributeError")
  ELSE IF name \in CorpusFrames THEN Return(name)
  ELSE Raise("FramenetError")

\* frame.frameRelations: the relations the frame takes part in, on either side.
FrameRelationsOf(name) ==
  {rel \in CorpusRelations : rel.superFrameName = name \/ rel.subFrameName = name}

\* The FrameInfo built from a corpus frame (lexical unit lu, "" for none).
CorpusFrameInfo(name, lu) ==
  FrameInfo(name, CorpusDefinition(name), lu, CoreElements(name))

(***************************************************************************)
(* src/PunID/pie/framenet_service.py: the NLTK-only provider and service.  *)
(* available is NLTKFrameNetProvider._available.                           *)
(***************************************************************************)

\* The lexical units self._fn.lus(r'(?i)^' + word + r'\.') finds.
FnLus(word) == SelectSeq(CorpusLUs, LAMBDA lu : lu.word = LowerWord(word))

NltkOnly_Provider_get_frames_for_word(available, word, pos) ==
  IF ~available THEN Return(<< >>)
  ELSE
    LET lus == FnLus(word)
        kept == SelectSeq(lus, LAMBDA lu : ~(pos # "" /\ lu.pos # pos))
    IN Return([i \in 1..Len(kept) |-> CorpusFrameInfo(kept[i].frame, kept[i].name)])

\* Variant of get_frame_by_name: a name the corpus does not hold gives an
\* empty descriptor instead of None.
NltkOnly_Provider_get_frame_by_name_UnknownDescribed(available, frame_name) ==
  IF ~available THEN Return(None)
  ELSE
    LET frame == FnFrame(available, frame_name)
    IN IF frame.raised THEN Return(FrameInfo(frame_name, "", "", << >>))
       ELSE Return(CorpusFrameInfo(frame.value, ""))

NltkOnly_Provider_get_frame_by_name(available, frame_name) ==
  IF ~available THEN Return(None)
  ELSE
    LET frame == FnFrame(available, frame_name)
    IN IF frame.raised THEN Return(None)
       ELSE Return(CorpusFrameInfo(frame.value, ""))

\* The name at the other end of rel, as the loop over superFrameName,
\* subFrameName, ... finds it: the first value that is not the frame itself.
RelatedName(rel, frame) ==
  IF rel.superFrameName # frame THEN rel.superFrameName ELSE rel.subFrameName

\* The keys of the dict f_relations built for frame (self-relations skipped).
NltkOnly_relations(frame) ==
  {RelatedName(rel, frame) : rel \in {r \in FrameRelationsOf(frame) : RelatedName(r, frame) # frame}}

\* f_relations[other]: the type of the relation of frame that names other.
RelationType(frame, other) ==
  (CHOOSE rel \in FrameRelationsOf(frame) : RelatedName(rel, frame) = other).type

\* Variant of NltkOnly_distance_from_relations: the same-frame test is left out.
NltkOnly_distance_from_relations_NoSameTest(available, frame1, frame2) ==
  IF FnFrame(available, frame1).raised
    THEN Return(<<Dist(-1), <<"Frame not found", frame1>> >>)
  ELSE IF FnFrame(available, frame2).raised
    THEN Return(<<Dist(-1), <<"Frame not found", frame2>> >>)
  ELSE
    LET f1_relations == NltkOnly_relations(frame1)
        f2_relations == NltkOnly_relations(frame2)
        common == f1_relations \cap f2_relations
    IN IF frame2 \in f1_relations
         THEN Return(<<Dist(1), <<"Direct relation", frame1, RelationType(frame1, frame2), frame2>> >>)
       ELSE IF frame1 \in f2_relations
         THEN Return(<<Dist(1), <<"Direct relation", frame2, RelationType(frame2, frame1), frame1>> >>)
       ELSE IF common # {}
         THEN Return(<<Dist(2), <<"Share related frame", CHOOSE c \in common : TRUE>> >>)
       ELSE Return(<<Dist(5), <<"No direct FrameNet relation found between", frame1, frame2>> >>)

\* Lines 124-191: what calculate_frame_distance does once past its
\* availability check.  Returns the tuple (distance, explanation).  With more
\* than one shared neighbour, list(common)[0] is whichever the set yields
\* first; the corpus of this model never has more than one.
NltkOnly_distance_from_relations(available, frame1, frame2) ==
  IF frame1 = frame2 THEN Return(<<Dist(0), <<"Same frame">> >>)
  ELSE IF FnFrame(available, frame1).raised
    THEN Return(<<Dist(-1), <<"Frame not found", frame1>> >>)
  ELSE IF FnFrame(available, frame2).raised
    THEN Return(<<Dist(-1), <<"Frame not found", frame2>> >>)
  ELSE
    LET f1_relations == NltkOnly_relations(frame1)
        f2_relations == NltkOnly_relations(frame2)
        common == f1_relations \cap f2_relations
    IN IF frame2 \in f1_relations
         THEN Return(<<Dist(1), <<"Direct relation", frame1, RelationType(frame1, frame2), frame2>> >>)
       ELSE IF frame1 \in f2_relations
         THEN Return(<<Dist(1), <<"Direct relation", frame2, RelationType(frame2, frame1), frame1>> >>)
       ELSE IF common # {}
         THEN Return(<<Dist(2), <<"Share related frame", CHOOSE c \in common : TRUE>> >>)
       ELSE Return(<<Dist(5), <<"No direct FrameNet relation found between", frame1, frame2>> >>)

\* Variant of NltkOnly_Provider_calculate_frame_distance: the availability
\* test is left out.
NltkOnly_Provider_calculate_frame_distance_Unguarded(available, frame1, frame2) ==
  NltkOnly_distance_from_relations(available, frame1, frame2)

NltkOnly_Provider_calculate_frame_distance(available, frame1, frame2) ==
  IF ~available THEN Return(<<Dist(-1), <<"FrameNet not available">> >>)
  ELSE NltkOnly_distance_from_relations(available, frame1, frame2)

NltkOnly_Service_get_frames_for_word(available, word, pos) ==
  NltkOnly_Provider_get_frames_for_word(available, word, pos)

NltkOnly_Service_get_frame_by_name(available, frame_name) ==
  NltkOnly_Provider_get_frame_by_name(available, frame_name)

NltkOnly_Service_calculate_frame_distance(available, frame1_name, frame2_name) ==
  LET frame1 == NltkOnly_Service_get_frame_by_name(available, frame1_name)
      frame2 == NltkOnly_Service_get_frame_by_name(available, frame2_name)
      r == NltkOnly_Provider_calculate_frame_distance(available, frame1_name, frame2_name)
  IN IF frame1.raised THEN frame1
     ELSE IF frame2.raised THEN frame2
     ELSE IF r.raised THEN r
     ELSE Return(FrameDistance(frame1.value, frame2.value, r.value[1],
                               IF r.value[1] >= 0 THEN "graph" ELSE "unknown",
                               r.value[2]))

(***************************************************************************)
(* src/PunID/pie/pie/framenet_service.py: the service the engine imports,  *)
(* an NLTK provider with an estimated provider as fallback.                *)
(*   available         NLTKFrameNetProvider._available                     *)
(*   relatedFrameAttr  whether the corpus' relation objects carry the      *)
(*                     attribute relatedFrame that lines 132-133 read      *)
(*   cache             EstimatedFrameNetProvider._frame_cache, a function  *)
(*                     from frame name to FrameInfo, None for no entry     *)
(***************************************************************************)
NLTKFrameNetProvider_get_frames_for_word(available, word, pos) ==
  IF ~available THEN Return(<< >>)
  ELSE
    LET lus == FnLus(word)
        kept == SelectSeq(lus, LAMBDA lu : ~(pos # "" /\ lu.pos # pos))
    IN Return([i \in 1..Len(kept) |-> CorpusFrameInfo(kept[i].frame, kept[i].name)])

NLTKFrameNetProvider_get_frame_by_name(available, frame_name) ==
  IF ~available THEN Return(None)
  ELSE
    LET frame == FnFrame(available, frame_name)
    IN IF frame.raised THEN Return(None)
       ELSE Return(CorpusFrameInfo(frame.value, ""))

\* {rel.relatedFrame.name: rel.type.name for rel in f.frameRelations}: raises
\* when a relation has no attribute relatedFrame.
NLTKFrameNetProvider_relations(relatedFrameAttr, frame) ==
  IF FrameRelationsOf(frame) # {} /\ ~relatedFrameAttr THEN Raise("AttributeError")
  ELSE Return({RelatedName(rel, frame) : rel \in FrameRelationsOf(frame)})

\* Lines 127-155: the try block and its except clause.
NLTKFrameNetProvider_distance_from_relations(available, relatedFrameAttr, frame1, frame2) ==
  LET f1 == FnFrame(available, frame1)
      f2 == FnFrame(available, frame2)
      f1_relations == NLTKFrameNetProvider_relations(relatedFrameAttr, frame1)
      f2_relations == NLTKFrameNetProvider_relations(relatedFrameAttr, frame2)
  IN IF f1.raised THEN Return(<<Dist(-1), <<"Error", f1.exc>> >>)
     ELSE IF f2.raised THEN Return(<<Dist(-1), <<"Error", f2.exc>> >>)
     ELSE IF f1_relations.raised THEN Return(<<Dist(-1), <<"Error", f1_relations.exc>> >>)
     ELSE IF f2_relations.raised THEN Return(<<Dist(-1), <<"Error", f2_relations.exc>> >>)
     ELSE IF frame2 \in f1_relations.value
       THEN Return(<<Dist(1), <<"Direct relation", frame1, RelationType(frame1, frame2), frame2>> >>)
     ELSE IF frame1 \in f2_relations.value
       THEN Return(<<Dist(1), <<"Direct relation", frame2, RelationType(frame2, frame1), frame1>> >>)
     ELSE IF f1_relations.value \cap f2_relations.value # {}
       THEN Return(<<Dist(2), <<"Share related frame",
                                CHOOSE c \in f1_relations.value \cap f2_relations.value : TRUE>> >>)
     ELSE Return(<<Dist(5), <<"No direct FrameNet relation found between", frame1, frame2>> >>)

\* Variant of NLTKFrameNetProvider_calculate_frame_distance: a second name
\* the corpus does not hold counts as an unrelated frame.
NLTKFrameNetProvider_calculate_frame_distance_SecondUnchecked(available, relatedFrameAttr, frame1, frame2) ==
  IF ~available THEN Return(<<Dist(-1), <<"FrameNet not available">> >>)
  ELSE IF frame1 = frame2 THEN Return(<<Dist(0), <<"Same frame">> >>)
  ELSE IF ~FnFrame(available, frame1).raised /\ FnFrame(available, frame2).raised
    THEN Return(<<Dist(5), <<"No direct FrameNet relation found between", frame1, frame2>> >>)
  ELSE NLTKFrameNetProvider_distance_from_relations(available, relatedFrameAttr, frame1, frame2)

NLTKFrameNetProvider_calculate_frame_distance(available, relatedFrameAttr, frame1, frame2) ==
  IF ~available THEN Return(<<Dist(-1), <<"FrameNet not available">> >>)
  ELSE IF frame1 = frame2 THEN Return(<<Dist(0), <<"Same frame">> >>)
  ELSE NLTKFrameNetProvider_distance_from_relations(available, relatedFrameAttr, frame1, frame2)

EstimatedFrameNetProvider_get_frames_for_word(word, pos) == Return(<< >>)

\* The placeholder get_frame_by_name creates for a name it has not cached.
PlaceholderFrame(frame_name) ==
  FrameInfo(frame_name, <<"[Estimated frame]", frame_name>>, "", << >>)

\* Returns the frame and the cache as the call leaves it.
EstimatedFrameNetProvider_get_frame_by_name(cache, frame_name) ==
  IF cache[frame_name] # None
    THEN [raised |-> FALSE, value |-> cache[frame_name], cache |-> cache]
    ELSE [raised |-> FALSE, value |-> PlaceholderFrame(frame_name),
          cache |-> [cache EXCEPT ![frame_name] = PlaceholderFrame(frame_name)]]

EstimatedFrameNetProvider_calculate_frame_distance(frame1, frame2) ==
  IF frame1 = frame2 THEN Return(<<Dist(0), <<"Same frame">> >>)
  ELSE Return(<<Dist(-1), <<"Requires LLM estimation">> >>)

\* The cache after cache_frame(frame_info).
EstimatedFrameNetProvider_cache_frame(cache, frame_info) ==
  [cache EXCEPT ![frame_info.frame_name] = frame_info]

FrameNetService_get_frames_for_word(available, word, pos) ==
  LET frames == IF available
                  THEN NLTKFrameNetProvider_get_frames_for_word(available, word, pos)
                  ELSE EstimatedFrameNetProvider_get_frames_for_word(word, pos)
  IN IF ~frames.raised /\ frames.value = << >> /\ available
       THEN EstimatedFrameNetProvider_get_frames_for_word(word, pos)
       ELSE frames

\* Returns the frame and the cache as the call leaves it.
FrameNetService_get_frame_by_name(available, cache, frame_name) ==
  IF available
    THEN LET r == NLTKFrameNetProvider_get_frame_by_name(available, frame_name)
         IN [raised |-> r.raised, value |-> r.value, cache |-> cache]
    ELSE EstimatedFrameNetProvider_get_frame_by_name(cache, frame_name)

\* The primary provider's calculate_frame_distance.
FrameNetService_primary_distance(available, relatedFrameAttr, frame1_name, frame2_name) ==
  IF available
    THEN NLTKFrameNetProvider_calculate_frame_distance(available, relatedFrameAttr,
                                                       frame1_name, frame2_name)
    ELSE EstimatedFrameNetProvider_calculate_frame_distance(frame1_name, frame2_name)

\* Returns the FrameDistance and the cache as the call leaves it.
FrameNetService_calculate_frame_distance(available, relatedFrameAttr, cache, frame1_name, frame2_name) ==
  LET frame1 == FrameNetService_get_frame_by_name(available, cache, frame1_name)
      frame2 == FrameNetService_get_frame_by_name(available, frame1.cache, frame2_name)
      r == FrameNetService_primary_distance(available, relatedFrameAttr, frame1_name, frame2_name)
      distance == r.value[1]
      distance_type == IF distance < 0 THEN "unknown"
                       ELSE IF available THEN "graph" ELSE "estimated"
  IN [raised |-> FALSE,
      value |-> FrameDistance(frame1.value, frame2.value,
                              IF distance < 0 THEN Dist(-1) ELSE distance,
                              distance_type, r.value[2]),
      cache |-> frame2.cache]

FrameNetService_cache_estimated_frame(cache, frame_info) ==
  EstimatedFrameNetProvider_cache_frame(cache, frame_info)

(***************************************************************************)
(* The LLM transport (client.messages.create).  A call either fails with   *)
(* an exception or returns a text.  A validator or estimation text is a    *)
(* sequence of lines; a line is matched as a whole.                        *)
(***************************************************************************)
LLMFailure == Raise("APIError")

\* str.lower() on the lines of the validator texts.
LowerLine(line) ==
  CASE line = "BOTH_ACTIVATED: yes" -> "both_activated: yes"
    [] line = "BOTH_ACTIVATED: no" -> "both_activated: no"
    [] line = "TEST_PASSED: yes" -> "test_passed: yes"
    [] line = "TEST_PASSED: no" -> "test_passed: no"
    [] line = "EXPLANATION: because" -> "explanation: because"
    [] OTHER -> line

\* text.lower()
LowerText(text) == [i \in 1..Len(text) |-> LowerLine(text[i])]

\* marker in text
Contains(text, marker) == \E i \in 1..Len(text) : text[i] = marker

\* text.split("EXPLANATION:")[-1].strip() when "EXPLANATION:" is in the text.
ExplanationOf(text) ==
  IF Contains(text, "EXPLANATION: because") THEN <<"because">> ELSE << >>

SenseActivationTexts ==
  { <<"BOTH_ACTIVATED: yes", "EXPLANATION: because">>,
    <<"both_activated: yes", "EXPLANATION: because">>,
    <<"BOTH_ACTIVATED: no", "EXPLANATION: because">> }

SubstitutionTexts ==
  { <<"TEST_PASSED: yes", "EXPLANATION: because">>,
    <<"test_passed: yes", "EXPLANATION: because">>,
    <<"TEST_PASSED: no", "EXPLANATION: because">> }

SenseActivationResponses == {LLMFailure} \cup {Return(t) : t \in SenseActivationTexts}
SubstitutionResponses == {LLMFailure} \cup {Return(t) : t \in SubstitutionTexts}

(***************************************************************************)
(* src/PunID/pie/validators.py.  client is LLMValidator._client (attached  *)
(* or not); response is what the check's LLM call gives, read only when    *)
(* the call is made.  Each check returns the tuple (passed, explanation).  *)
(***************************************************************************)
\* Variant of validate_sense_activation: a failed LLM call fails the check.
LLMValidator_validate_sense_activation_FailClosed(client, response) ==
  IF ~client THEN Return(<<TRUE, <<"LLM validator not configured">> >>)
  ELSE IF response.raised THEN Return(<<FALSE, <<"Validation error", response.exc>> >>)
  ELSE
    LET text == response.value
        both_activated == \/ Contains(LowerText(text), "BOTH_ACTIVATED: yes")
                          \/ Contains(text, "both_activated: yes")
    IN Return(<<both_activated, ExplanationOf(text)>>)

\* LLMValidator.validate_sense_activation
LLMValidator_validate_sense_activation(client, response) ==
  IF ~client THEN Return(<<TRUE, <<"LLM validator not configured">> >>)
  ELSE IF response.raised THEN Return(<<TRUE, <<"Validation error", response.exc>> >>)
  ELSE
    LET text == response.value
        both_activated == \/ Contains(LowerText(text), "BOTH_ACTIVATED: yes")
                          \/ Contains(text, "both_activated: yes")
    IN Return(<<both_activated, ExplanationOf(text)>>)

LLMValidator_validate_substitution(client, response) ==
  IF ~client THEN Return(<<TRUE, <<"LLM validator not configured">> >>)
  ELSE IF response.raised THEN Return(<<TRUE, <<"Validation error", response.exc>> >>)
  ELSE
    LET text == response.value
        test_passed == \/ Contains(LowerText(text), "TEST_PASSED: yes")
                       \/ Contains(text, "test_passed: yes")
    IN Return(<<test_passed, ExplanationOf(text)>>)

\* models.ValidationResult
ValidationResult(dist_valid, dist_explanation, sub_valid, sub_explanation, confidence) ==
  [distributional_valid |-> dist_valid,
   distributional_explanation |-> dist_explanation,
   substitution_valid |-> sub_valid,
   substitution_explanation |-> sub_explanation,
   overall_confidence |-> confidence]

\* 1.0 as a confidence, in thousandths.
Conf(n) == 1000 * n
Half == Conf(1) \div 2
BonusCap == Conf(1) \div 5

\* Variant of OverallConfidence: the total is not capped at 1.0.
OverallConfidence_TotalUncapped(dist_valid, sub_valid, frame_distance) ==
  LET base == (IF dist_valid THEN Half ELSE 0) + (IF sub_valid THEN Half ELSE 0)
  IN IF frame_distance # None /\ frame_distance.distance > 0
       THEN base + Min(BonusCap, frame_distance.distance * 4)
       ELSE base

\* Variant of OverallConfidence: the bonus is added only to a non-zero base.
OverallConfidence_BonusNeedsBase(dist_valid, sub_valid, frame_distance) ==
  LET base == (IF dist_valid THEN Half ELSE 0) + (IF sub_valid THEN Half ELSE 0)
  IN IF base > 0 /\ frame_distance # None /\ frame_distance.distance > 0
       THEN Min(Conf(1), base + Min(BonusCap, frame_distance.distance * 4))
       ELSE base

\* Variant of OverallConfidence: the bonus is not capped at 0.2.
OverallConfidence_BonusUncapped(dist_valid, sub_valid, frame_distance) ==
  LET base == (IF dist_valid THEN Half ELSE 0) + (IF sub_valid THEN Half ELSE 0)
  IN IF frame_distance # None /\ frame_distance.distance > 0
       THEN Min(Conf(1), base + frame_distance.distance * 4)
       ELSE base

\* Lines 317-328 of validate_pun: the confidence from the two checks and the
\* pun's frame distance (None, or a FrameDistance with distance in tenths).
\* distance * 0.04 is 4 thousandths per tenth.
OverallConfidence(dist_valid, sub_valid, frame_distance) ==
  LET base == (IF dist_valid THEN Half ELSE 0) + (IF sub_valid THEN Half ELSE 0)
  IN IF frame_distance # None /\ frame_distance.distance > 0
       THEN Min(Conf(1), base + Min(BonusCap, frame_distance.distance * 4))
       ELSE base

\* SpaCyValidator.get_word_context: the context words of the target word,
\* none when spaCy is not available or no token of the sentence is the word.
SentenceTokens(sentence) ==
  IF sentence = "Time flies like an arrow" THEN {"time", "flies", "like", "an", "arrow"}
  ELSE {}

SpaCyValidator_get_word_context(spacy_available, sentence, target_word) ==
  IF ~spacy_available THEN << >>
  ELSE IF target_word \in SentenceTokens(sentence) THEN <<"context">>
  ELSE << >>

\* PunValidator.validate_pun: the ValidationResult and the pun as the call
\* leaves it (context_words set when spaCy finds any).
PunValidator_validate_pun(client, spacy_available, sentence, pun, response1, response2) ==
  LET dist == LLMValidator_validate_sense_activation(client, response1).value
      context_words == SpaCyValidator_get_word_context(spacy_available, sentence,
                                                       pun.word_or_expression)
      sub == LLMValidator_validate_substitution(client, response2).value
  IN [raised |-> FALSE,
      value |-> ValidationResult(dist[1], dist[2], sub[1], sub[2],
                                 OverallConfidence(dist[1], sub[1], pun.frame_distance)),
      pun |-> IF spacy_available /\ context_words # << >>
                THEN [pun EXCEPT !.context_words = context_words]
                ELSE pun]

(***************************************************************************)
(* The text of the primary analysis response: a sequence of tokens.        *)
(*   lbrace, rbrace   the braces of the outermost JSON object              *)
(*   has_pun          the member "has_pun": v                              *)
(*   notes            the member "analysis_notes": "..."                   *)
(*   cand             one entry of the member "puns" (c: its fields)       *)
(*   num              a JSON number standing alone, such as 42             *)
(*   prose            text that is not JSON                                *)
(***************************************************************************)
TLbrace == [t |-> "lbrace"]
TRbrace == [t |-> "rbrace"]
THasPun(v) == [t |-> "has_pun", v |-> v]
TNotes == [t |-> "notes"]
TCand(c) == [t |-> "cand", c |-> c]
TNum == [t |-> "num"]
TProse == [t |-> "prose"]

\* A key the decoded candidate does not have.
Missing == "<missing>"

\* A key the decoded candidate holds with the JSON value null (None).
Null == "<null>"

\* dict.get(key, default): a key that is present gives its value, null too.
Get(d, key, default) == IF d[key] = Missing THEN default ELSE d[key]

IsMember(tok) == tok.t \in {"has_pun", "notes", "cand"}

\* The dict json.loads builds from the members between the braces.
DecodedObject(members) ==
  LET hp == SelectSeq(members, LAMBDA tok : tok.t = "has_pun")
      cands == SelectSeq(members, LAMBDA tok : tok.t = "cand")
  IN [kind |-> "dict",
      has_pun |-> IF hp = << >> THEN Missing ELSE hp[Len(hp)].v,
      puns |-> [i \in 1..Len(cands) |-> cands[i].c],
      analysis_notes |-> IF \E i \in 1..Len(members) : members[i].t = "notes"
                           THEN "notes of the analysis" ELSE Missing]

\* json.loads(text): a number standing alone, or one object and nothing else.
JsonLoads(text) ==
  IF text = <<TNum>> THEN Return([kind |-> "number"])
  ELSE IF /\ Len(text) >= 2
          /\ text[1].t = "lbrace"
          /\ text[Len(text)].t = "rbrace"
          /\ \A i \in 2..(Len(text) - 1) : IsMember(text[i])
    THEN Return(DecodedObject(SubSeq(text, 2, Len(text) - 1)))
  ELSE Raise("JSONDecodeError")

\* re.search(r'\{[\s\S]*\}', text): the greedy match runs from the first
\* opening brace that a closing brace follows to the last closing brace.
BraceMatch(text) ==
  LET opens == {i \in 1..Len(text) : text[i].t = "lbrace"}
      closes == {i \in 1..Len(text) : text[i].t = "rbrace"}
  IN IF \E i \in opens, j \in closes : i < j
       THEN LET last == CHOOSE j \in closes : \A k \in closes : k <= j
                first == CHOOSE i \in opens : i < last /\ \A k \in opens : k >= i
            IN [matched |-> TRUE, value |-> SubSeq(text, first, last)]
       ELSE [matched |-> FALSE, value |-> << >>]

FailedParse ==
  [kind |-> "dict", has_pun |-> 0, puns |-> << >>,
   analysis_notes |-> "Failed to parse response"]

\* Variant of parse_llm_response: no empty analysis when nothing decodes.
parse_llm_response_NoFallback(response) ==
  LET direct == JsonLoads(response)
      json_match == BraceMatch(response)
  IN IF ~direct.raised THEN direct.value
     ELSE IF json_match.matched /\ ~JsonLoads(json_match.value).raised
       THEN JsonLoads(json_match.value).value
     ELSE [kind |-> "none"]

\* PunIdentificationEngine._parse_llm_response
parse_llm_response(response) ==
  LET direct == JsonLoads(response)
      json_match == BraceMatch(response)
  IN IF ~direct.raised THEN direct.value
     ELSE IF json_match.matched /\ ~JsonLoads(json_match.value).raised
       THEN JsonLoads(json_match.value).value
     ELSE FailedParse

\* The names of the enum models.PunType.
PunType == {"HOMOPHONIC", "HOMOGRAPHIC", "RECURSIVE", "ANTANACLASIS"}

\* str.upper() on the pun-type labels of the model.
Upper(label) ==
  CASE label = "homophonic" -> "HOMOPHONIC"
    [] label = "Recursive" -> "RECURSIVE"
    [] label = "satire" -> "SATIRE"
    [] OTHER -> label

\* Line 203: .upper() on the declared label; None has no upper().
PunTypeRaises(pun_data) == Get(pun_data, "pun_type", "HOMOGRAPHIC") = Null

\* Variant of PunTypeOf: the label is looked up as declared, without upper().
PunTypeOf_CaseSensitive(pun_data) ==
  LET pun_type_str == Get(pun_data, "pun_type", "HOMOGRAPHIC")
  IN IF pun_type_str \in PunType THEN pun_type_str ELSE "HOMOGRAPHIC"

\* Lines 203-208: PunType[pun_type_str], HOMOGRAPHIC on KeyError.
PunTypeOf(pun_data) ==
  LET pun_type_str == Upper(Get(pun_data, "pun_type", "HOMOGRAPHIC"))
  IN IF pun_type_str \in PunType THEN pun_type_str ELSE "HOMOGRAPHIC"

\* models.PunInstance as the engine constructs it (pun_type_enum is not
\* passed and keeps its default None).
PunInstance(word, pun_type, sense1, sense2, frame_distance, explanation) ==
  [word_or_expression |-> word, pun_type |-> pun_type, pun_type_enum |-> None,
   sense1 |-> sense1, sense2 |-> sense2, frame_distance |-> frame_distance,
   explanation |-> explanation, context_words |-> << >>,
   validation |-> None, confidence |-> 0]

\* models.PunAnalysisResult
PunAnalysisResult(sentence, has_pun, puns, analysis_notes, raw_llm_response) ==
  [sentence |-> sentence, has_pun |-> has_pun, puns |-> puns,
   analysis_notes |-> analysis_notes, raw_llm_response |-> raw_llm_response]

(***************************************************************************)
(* The text of an estimation response:                                     *)
(*   distance  what follows "DISTANCE:": form "plain" for digits (tenths   *)
(*             holds the number), "negative" for a minus sign and digits,  *)
(*             "missing" when the text has no DISTANCE: line               *)
(*   defs      whether the FRAME1_DEFINITION: and FRAME2_DEFINITION: lines *)
(*             are present                                                 *)
(*   explained whether the EXPLANATION: line is present                    *)
(***************************************************************************)
EstimationText(form, tenths, defs, explained) ==
  [distance |-> [form |-> form, tenths |-> tenths], defs |-> defs, explained |-> explained]

EstimationTexts ==
  { EstimationText("plain", 0, TRUE, TRUE),
    EstimationText("plain", MaxEstTenths, TRUE, TRUE),
    EstimationText("negative", 30, TRUE, TRUE),
    EstimationText("missing", 0, FALSE, FALSE) }

EstimationResponses == {LLMFailure} \cup {Return(t) : t \in EstimationTexts}

\* Variant of EstimatedDistance: the number is clamped to the 0-10 the prompt
\* asks for.
EstimatedDistance_Clamped(text) ==
  IF text.distance.form = "plain" THEN Min(text.distance.tenths, Dist(10)) ELSE Dist(5)

\* Variant of EstimatedDistance: the pattern accepts a minus sign.
EstimatedDistance_Signed(text) ==
  IF text.distance.form = "plain" THEN text.distance.tenths
  ELSE IF text.distance.form = "negative" THEN 0 - text.distance.tenths
  ELSE Dist(5)

\* Lines 298-301: re.search(r'DISTANCE:\s*(\d+(?:\.\d+)?)', text), 5.0 when
\* nothing matches; a minus sign stops the match.
EstimatedDistance(text) ==
  IF text.distance.form = "plain" THEN text.distance.tenths ELSE Dist(5)

\* Lines 304-311: the definition of frame n (1 or 2), "" when not matched.
EstimatedDefinition(text, n) ==
  IF text.defs THEN <<"definition of frame", n>> ELSE << >>

\* Lines 314-317
EstimatedExplanation(text) ==
  IF text.explained THEN <<"explained">> ELSE << >>

\* Variant of estimate_frame_distance_via_llm: the frames are cached before
\* the LLM call, so a failed call leaves them in the cache.
estimate_frame_distance_via_llm_CachesFirst(cache, frame1_name, frame2_name, response) ==
  LET text == IF response.raised THEN EstimationText("missing", 0, FALSE, FALSE)
              ELSE response.value
      frame1_info == FrameInfo(frame1_name, EstimatedDefinition(text, 1), "", << >>)
      frame2_info == FrameInfo(frame2_name, EstimatedDefinition(text, 2), "", << >>)
      cached == FrameNetService_cache_estimated_frame(
                  FrameNetService_cache_estimated_frame(cache, frame1_info), frame2_info)
  IN [raised |-> FALSE,
      value |-> IF response.raised
                  THEN FrameDistance(None, None, Dist(5), "default",
                                     <<"Could not estimate", response.exc>>)
                  ELSE FrameDistance(frame1_info, frame2_info, EstimatedDistance(text),
                                     "estimated", EstimatedExplanation(text)),
      cache |-> cached, writes |-> 2]

\* PunIdentificationEngine._estimate_frame_distance_via_llm: the
\* FrameDistance, the cache as the call leaves it and the cache writes made.
estimate_frame_distance_via_llm(cache, frame1_name, frame2_name, response) ==
  IF response.raised
    THEN [raised |-> FALSE,
          value |-> FrameDistance(None, None, Dist(5), "default",
                                  <<"Could not estimate", response.exc>>),
          cache |-> cache, writes |-> 0]
    ELSE
      LET text == response.value
          frame1_info == FrameInfo(frame1_name, EstimatedDefinition(text, 1), "", << >>)
          frame2_info == FrameInfo(frame2_name, EstimatedDefinition(text, 2), "", << >>)
      IN [raised |-> FALSE,
          value |-> FrameDistance(frame1_info, frame2_info, EstimatedDistance(text),
                                  "estimated", EstimatedExplanation(text)),
          cache |-> FrameNetService_cache_estimated_frame(
                      FrameNetService_cache_estimated_frame(cache, frame1_info),
                      frame2_info),
          writes |-> 2]

\* Variant of NeedsEstimation: the frame service's answer is always kept.
NeedsEstimation_Never(frame_distance) == FALSE

\* Variant of NeedsEstimation: a distance of 0 is estimated as well.
NeedsEstimation_NonPositive(frame_distance) == frame_distance.distance <= 0

\* Whether _calculate_frame_distance goes on to the LLM estimation.
NeedsEstimation(frame_distance) == frame_distance.distance < 0

\* PunIdentificationEngine._calculate_frame_distance: the FrameDistance, the
\* cache as the call leaves it, and whether the estimation call was made.
calculate_frame_distance(available, relatedFrameAttr, cache, frame1_name, frame2_name, response) ==
  LET looked == FrameNetService_calculate_frame_distance(available, relatedFrameAttr, cache,
                                                         frame1_name, frame2_name)
      est == estimate_frame_distance_via_llm(looked.cache, frame1_name, frame2_name, response)
  IN IF NeedsEstimation(looked.value)
       THEN [raised |-> est.raised, value |-> est.value, cache |-> est.cache,
             estimated |-> TRUE, looked_cache |-> looked.cache]
       ELSE [raised |-> FALSE, value |-> looked.value, cache |-> looked.cache,
             estimated |-> FALSE, looked_cache |-> looked.cache]

\* Lines 201-233: the PunInstance built from one decoded candidate.
build_pun_instance(pun_data, frame_distance) ==
  PunInstance(Get(pun_data, "word_or_expression", ""),
              PunTypeOf(pun_data),
              Get(pun_data, "sense1", ""),
              Get(pun_data, "sense2", ""),
              frame_distance,
              Get(pun_data, "explanation", ""))

(***************************************************************************)
(* Inputs: the sentences, the candidates an LLM response may declare and   *)
(* the texts the primary analysis call may return.                         *)
(***************************************************************************)
Sentences == {"Time flies like an arrow"}

Candidate(word, pun_type, sense1, sense2, sense1_frame, sense2_frame, explanation) ==
  [word_or_expression |-> word, pun_type |-> pun_type, sense1 |-> sense1,
   sense2 |-> sense2, sense1_frame |-> sense1_frame, sense2_frame |-> sense2_frame,
   explanation |-> explanation]

\* The pool in the order the lists run through it.
PoolOrder ==
  << Candidate("flies", "HOMOGRAPHIC", "moves through the air", "insects",
               "Motion", "Travel", "flies is a verb and a noun"),
     Candidate("banker", "homophonic", "bank clerk", "lost interest",
               "Commerce", "Commerce", "interest is money and attention"),
     Candidate("time flies", "satire", "time passes", Missing,
               "Food", Missing, Missing) >>

\* A candidate whose pun_type is null.
NullTypeCandidate ==
  Candidate("null", Null, "nothing", "not anything", "Motion", "Food", "a null label")

\* The lists of at most MaxPuns candidates: the runs of the pool, taken
\* cyclically; those of up to two candidates start at each candidate of the
\* pool, the longer ones at the first.
CandidateRun(start, n) ==
  [i \in 1..n |-> PoolOrder[((start + i - 2) % Len(PoolOrder)) + 1]]

CandidateLists ==
  {CandidateRun(start, n) : start \in 1..Len(PoolOrder), n \in 0..Min(MaxPuns, 2)}
    \cup {CandidateRun(1, n) : n \in 0..MaxPuns}

\* The JSON object declaring has_pun and the candidates, with or without notes.
ObjectText(has_pun, cands, notes) ==
  <<TLbrace, THasPun(has_pun)>> \o [i \in 1..Len(cands) |-> TCand(cands[i])]
    \o (IF notes THEN <<TNotes>> ELSE << >>) \o <<TRbrace>>

\* An object alone; an object after prose; an object before prose that holds
\* braces of its own; an object with a null label, first or after another
\* candidate; and texts that hold no object.
PrimaryTexts ==
  {ObjectText(1, cands, TRUE) : cands \in CandidateLists}
    \cup {ObjectText(1, <<NullTypeCandidate>>, TRUE),
          ObjectText(1, <<PoolOrder[1], NullTypeCandidate>>, TRUE)}
    \cup {<<TProse>> \o ObjectText(0, cands, FALSE) :
            cands \in {l \in CandidateLists : Len(l) <= 1}}
    \cup {ObjectText(1, cands, TRUE) \o <<TProse, TLbrace, TProse, TRbrace>> :
            cands \in {l \in CandidateLists : Len(l) <= 1}}
    \cup { << >>, <<TProse>>, <<TNum>>, <<TLbrace, TProse, TRbrace>>,
           <<TRbrace, TProse, TLbrace>> }

PrimaryResponses == {LLMFailure} \cup {Return(text) : text \in PrimaryTexts}

(***************************************************************************)
(* State.                                                                  *)
(*   client            PunIdentificationEngine._client is attached; the    *)
(*                     validator's client is attached with it (line 104)   *)
(*   validate          PunIdentificationEngine._validate                   *)
(*   available         NLTKFrameNetProvider._available                     *)
(*   relatedFrameAttr  the corpus' relations carry relatedFrame            *)
(*   spacy_available   SpaCyValidator._available                           *)
(*   frame_cache       EstimatedFrameNetProvider._frame_cache              *)
(*   pc                where the analyze call in progress stands           *)
(*   sentence, raw_response, analysis_notes, todo, puns, validated         *)
(*                     the locals of analyze: raw_response is None until   *)
(*                     the primary call has returned, then Text(text);     *)
(*                     todo holds                                          *)
(*                     the decoded candidates not built yet, validated     *)
(*                     counts the puns the validation loop has passed      *)
(*   calls             what the analyze call has done so far: the calls    *)
(*                     made, those of them whose LLM call failed, and the  *)
(*                     last estimation call                                *)
(*   result            what the last analyze call returned or raised       *)
(*   last_query        the last direct call of the frame services          *)
(*   batch             the analyze_batch call in progress or finished:     *)
(*                     its sentences, the results its comprehension has    *)
(*                     collected, the position of the sentence whose       *)
(*                     analysis failed (0: none) and what the call         *)
(*                     returned or raised (None while it runs); None when  *)
(*                     analyze is called on its own                        *)
(*   threads           the request threads that share the engine of        *)
(*                     api.get_engine: where each stands in the frame      *)
(*                     lookup and estimation of its analysis (pc), the     *)
(*                     frame name it works on, and the names whose cache   *)
(*                     entry it was the last to write (wrote)              *)
(***************************************************************************)
VARIABLES client, validate, available, relatedFrameAttr, spacy_available,
          frame_cache, pc, sentence, raw_response, analysis_notes, todo, puns,
          validated, calls, result, last_query, batch, threads

vars == <<client, validate, available, relatedFrameAttr, spacy_available,
          frame_cache, pc, sentence, raw_response, analysis_notes, todo, puns,
          validated, calls, result, last_query, batch, threads>>

config == <<validate, available, relatedFrameAttr, spacy_available>>
locals == <<sentence, raw_response, analysis_notes, todo, puns, validated>>

NoCalls ==
  [primary |-> 0, lookup |-> 0, estimate |-> 0, cache_write |-> 0,
   validate_pun |-> 0, validator_llm |-> 0,
   primary_failed |-> 0, estimate_failed |-> 0, validator_failed |-> 0,
   last_estimate |-> None]

EmptyCache == [name \in FrameNames |-> None]

\* The request threads of the API process.
Threads == {1, 2}

IdleThread == [pc |-> "idle", frame_name |-> "", wrote |-> {}]

\* The number of cache entries that differ between two caches.
CacheChanges(old, new) == Cardinality({name \in FrameNames : old[name] # new[name]})

\* What the last call of _estimate_frame_distance_via_llm was given and gave:
\* whether its LLM call failed and with what, whether it raised, the
\* FrameDistance, and the number of cache entries it changed.
EstimateRecord(response, fd) ==
  [failed |-> response.raised,
   cause |-> IF response.raised THEN response.exc ELSE "",
   raised |-> fd.raised,
   value |-> fd.value,
   cache_changes |-> CacheChanges(fd.looked_cache, fd.cache)]

Init ==
  /\ client \in BOOLEAN
  /\ validate \in BOOLEAN
  /\ available \in BOOLEAN
  /\ relatedFrameAttr \in (IF available THEN BOOLEAN ELSE {FALSE})
  /\ spacy_available \in BOOLEAN
  /\ frame_cache = EmptyCache
  /\ pc = "idle"
  /\ sentence = ""
  /\ raw_response = None
  /\ analysis_notes = ""
  /\ todo = << >>
  /\ puns = << >>
  /\ validated = 0
  /\ calls = NoCalls
  /\ result = None
  /\ last_query = None
  /\ batch = None
  /\ threads = [t \in Threads |-> IdleThread]

\* The local raw_response once the primary call has returned the text.
Text(text) == [text |-> text]

\* PunIdentificationEngine.set_api_key / _init_client: attaches the client
\* to the engine, the frame service and the validator, or raises.
SetApiKey(ok) ==
  /\ pc \in {"idle", "returned"}
  /\ client' = (client \/ ok)
  /\ UNCHANGED <<config, threads, frame_cache, pc, locals, calls, result, last_query, batch>>

\* Variant of NotConfigured: the configuration check is left out.
NotConfigured_Unchecked(c) == FALSE

\* analyze, line 130: if not self._client.
NotConfigured(c) == ~c

\* Variant of assemble_result: has_pun is taken from what the response declared.
assemble_result_Declared(s, built, notes, raw) ==
  PunAnalysisResult(s, IF \E i \in 1..Len(raw.text) : raw.text[i] = THasPun(1) THEN 1 ELSE 0,
                    built, notes, raw.text)

\* Variant of assemble_result: the JSON cut out of the response is kept as the raw text.
assemble_result_Extracted(s, built, notes, raw) ==
  PunAnalysisResult(s, IF built # << >> THEN 1 ELSE 0, built, notes,
                    IF BraceMatch(raw.text).matched THEN BraceMatch(raw.text).value
                    ELSE raw.text)

\* analyze, lines 149-155: the result it returns.
assemble_result(s, built, notes, raw) ==
  PunAnalysisResult(s, IF built # << >> THEN 1 ELSE 0, built, notes, raw.text)

\* Variant of collect: a failed analysis is skipped and the comprehension
\* goes on with the next sentence.
collect_Isolated(b, pc_after, result_after) ==
  IF b = None \/ pc_after # "returned" THEN b
  ELSE LET results == IF result_after.raised THEN b.results
                      ELSE Append(b.results, result_after.value)
           done == b.done + 1
       IN [b EXCEPT !.results = results,
                    !.done = done,
                    !.failed_at = IF result_after.raised /\ @ = 0 THEN done ELSE @,
                    !.outcome = IF done = Len(b.sentences) THEN Return(results) ELSE None]

\* Variant of collect: each result is put in front of those collected before.
collect_Reversed(b, pc_after, result_after) ==
  IF b = None \/ pc_after # "returned" THEN b
  ELSE IF result_after.raised
    THEN [b EXCEPT !.done = @ + 1, !.failed_at = b.done + 1, !.outcome = result_after]
  ELSE LET results == <<result_after.value>> \o b.results
       IN [b EXCEPT !.results = results,
                    !.done = @ + 1,
                    !.outcome = IF Len(results) = Len(b.sentences)
                                  THEN Return(results) ELSE None]

\* analyze_batch, line 365: [self.analyze(sentence) for sentence in
\* sentences].  The comprehension appends what an analyze call returns and
\* goes on; an exception of analyze leaves the comprehension and
\* analyze_batch at once.  Outside a batch there is nothing to collect.
collect(b, pc_after, result_after) ==
  IF b = None \/ pc_after # "returned" THEN b
  ELSE IF result_after.raised
    THEN [b EXCEPT !.done = @ + 1, !.failed_at = b.done + 1, !.outcome = result_after]
  ELSE LET results == Append(b.results, result_after.value)
       IN [b EXCEPT !.results = results,
                    !.done = @ + 1,
                    !.outcome = IF Len(results) = Len(b.sentences)
                                  THEN Return(results) ELSE None]

\* Variant of llm_attempts: a failed call is made once more.
llm_attempts_Retried(response) == IF response.raised THEN 2 ELSE 1

\* The client.messages.create calls one LLM request of the pipeline makes:
\* the call stands once in its try block, with no loop around it and no
\* second call in the except clause (engine.py 159-174 and 289-296,
\* validators.py 184-205 and 242-263).
llm_attempts(response) == 1

\* Variant of get_llm_analysis: a failed call is logged and gives the empty text.
get_llm_analysis_Swallowed(response) ==
  IF response.raised THEN Return(<< >>) ELSE Return(response.value)

\* PunIdentificationEngine._get_llm_analysis: the text of the primary call;
\* any failure of the call is raised again as RuntimeError.
get_llm_analysis(response) ==
  IF response.raised THEN Raise("RuntimeError: Failed to get LLM analysis")
  ELSE Return(response.value)

\* PunIdentificationEngine.analyze, lines 130-137 and the entry of
\* _build_pun_instances: the configuration check, the primary LLM call
\* (_get_llm_analysis) and the parse of its response.  With no candidate to
\* build, the call returns at once (lines 149-155).
Analyze(s, response) ==
  /\ pc \in {"idle", "returned"}
  /\ sentence' = s
  /\ puns' = << >>
  /\ validated' = 0
  /\ last_query' = None
  /\ IF NotConfigured(client)
       THEN /\ result' = Raise("RuntimeError: Engine not configured")
            /\ pc' = "returned"
            /\ calls' = NoCalls
            /\ raw_response' = None
            /\ analysis_notes' = ""
            /\ todo' = << >>
     ELSE IF get_llm_analysis(response).raised
       THEN /\ result' = get_llm_analysis(response)
            /\ pc' = "returned"
            /\ calls' = [NoCalls EXCEPT !.primary = llm_attempts(response),
                                        !.primary_failed = 1]
            /\ raw_response' = None
            /\ analysis_notes' = ""
            /\ todo' = << >>
     ELSE LET text == get_llm_analysis(response).value
              analysis_data == parse_llm_response(text)
          IN /\ calls' = [NoCalls EXCEPT !.primary = llm_attempts(response),
                                         !.primary_failed = IF response.raised THEN 1 ELSE 0]
             /\ raw_response' = Text(text)
             /\ IF analysis_data.kind # "dict"
                  THEN /\ result' = Raise("AttributeError")
                       /\ pc' = "returned"
                       /\ analysis_notes' = ""
                       /\ todo' = << >>
                  ELSE /\ analysis_notes' = Get(analysis_data, "analysis_notes", "")
                       /\ todo' = analysis_data.puns
                       /\ IF analysis_data.puns # << >>
                            THEN /\ pc' = "build"
                                 /\ result' = None
                            ELSE /\ pc' = "returned"
                                 /\ result' = Return(assemble_result(
                                      s, << >>, Get(analysis_data, "analysis_notes", ""),
                                      Text(text)))
  /\ batch' = collect(batch, pc', result')
  /\ UNCHANGED <<client, config, threads, frame_cache>>

\* One pass of the loop of _build_pun_instances (lines 201-233): the frame
\* distance of the next candidate, with the estimation call when the frame
\* service could not compute it, and the PunInstance.  After the last
\* candidate the call goes on to the validation loop or, with validation
\* switched off, returns.  A null label raises AttributeError at line 203,
\* before the frame lookup, and analyze passes it on.
BuildPun(response) ==
  /\ pc = "build"
  /\ todo # << >>
  /\ LET pun_data == Head(todo)
         frame1_name == Get(pun_data, "sense1_frame", "Unknown")
         frame2_name == Get(pun_data, "sense2_frame", "Unknown")
         fd == calculate_frame_distance(available, relatedFrameAttr, frame_cache,
                                        frame1_name, frame2_name, response)
         built == Append(puns, build_pun_instance(pun_data, fd.value))
     IN IF PunTypeRaises(pun_data)
          THEN /\ result' = Raise("AttributeError")
               /\ pc' = "returned"
               /\ UNCHANGED <<puns, frame_cache, calls, todo>>
          ELSE
        /\ puns' = built
        /\ frame_cache' = fd.cache
        /\ calls' = [calls EXCEPT !.lookup = @ + 1,
                                  !.estimate =
                                     @ + (IF fd.estimated THEN llm_attempts(response) ELSE 0),
                                  !.cache_write = @ + CacheChanges(frame_cache, fd.cache),
                                  !.estimate_failed =
                                     @ + (IF fd.estimated /\ response.raised THEN 1 ELSE 0),
                                  !.last_estimate =
                                     IF fd.estimated THEN EstimateRecord(response, fd) ELSE @]
        /\ todo' = Tail(todo)
        /\ IF Tail(todo) # << >> THEN pc' = "build" /\ result' = None
           ELSE IF validate THEN pc' = "validate" /\ result' = None
           ELSE /\ pc' = "returned"
                /\ result' = Return(assemble_result(sentence, built, analysis_notes,
                                                    raw_response))
  /\ batch' = collect(batch, pc', result')
  /\ UNCHANGED <<client, config, threads, sentence, raw_response, analysis_notes, validated,
                 last_query>>

\* One pass of the validation loop of analyze (lines 143-147); after the
\* last pun the call returns.
ValidatePun(response1, response2) ==
  /\ pc = "validate"
  /\ validated < Len(puns)
  /\ LET i == validated + 1
         v == PunValidator_validate_pun(client, spacy_available, sentence, puns[i],
                                        response1, response2)
         checked == [puns EXCEPT ![i] = [v.pun EXCEPT !.validation = v.value,
                                                      !.confidence = v.value.overall_confidence]]
     IN /\ puns' = checked
        /\ validated' = i
        /\ calls' = [calls EXCEPT !.validate_pun = @ + 1,
                                  !.validator_llm =
                                     @ + (IF client THEN llm_attempts(response1)
                                                         + llm_attempts(response2)
                                          ELSE 0),
                                  !.validator_failed =
                                     @ + (IF client /\ response1.raised THEN 1 ELSE 0)
                                       + (IF client /\ response2.raised THEN 1 ELSE 0)]
        /\ IF i < Len(puns) THEN pc' = "validate" /\ result' = None
           ELSE /\ pc' = "returned"
                /\ result' = Return(assemble_result(sentence, checked, analysis_notes,
                                                    raw_response))
  /\ batch' = collect(batch, pc', result')
  /\ UNCHANGED <<client, config, threads, frame_cache, sentence, raw_response, analysis_notes,
                 todo, last_query>>

\* One engine, constructed and possibly configured, serving one analyze call.
Next ==
  \/ \E ok \in BOOLEAN : SetApiKey(ok)
  \/ /\ pc = "idle"
     /\ \E s \in Sentences, response \in PrimaryResponses : Analyze(s, response)
  \/ \E response \in EstimationResponses : BuildPun(response)
  \/ \E response1 \in SenseActivationResponses, response2 \in SubstitutionResponses :
       ValidatePun(response1, response2)

Spec == Init /\ [][Next]_vars

(***************************************************************************)
(* PunAnalysisResult.to_dict: the exchange format of a result, and a       *)
(* caller that serialises the result analyze returned.                     *)
(***************************************************************************)

\* The value of a member of the enum PunType.
PunTypeValue(member) ==
  CASE member = "HOMOPHONIC" -> "homophonic"
    [] member = "HOMOGRAPHIC" -> "homographic"
    [] member = "RECURSIVE" -> "recursive"
    [] member = "ANTANACLASIS" -> "antanaclasis"

\* Lines 151-158: the dict of a frame descriptor, None for an absent one.
FrameDict(frame) ==
  IF frame # None
    THEN [frame_name |-> frame.frame_name, frame_definition |-> frame.frame_definition]
    ELSE None

\* Lines 143-172: the dict of one pun.
PunDict(p) ==
  [word_or_expression |-> p.word_or_expression,
   pun_type |-> p.pun_type,
   pun_type_enum |-> IF p.pun_type_enum # None THEN PunTypeValue(p.pun_type_enum) ELSE None,
   sense1 |-> p.sense1,
   sense2 |-> p.sense2,
   frame_distance |->
     IF p.frame_distance # None
       THEN [distance |-> p.frame_distance.distance,
             distance_type |-> p.frame_distance.distance_type,
             explanation |-> p.frame_distance.explanation,
             sense1_frame |-> FrameDict(p.frame_distance.sense1_frame),
             sense2_frame |-> FrameDict(p.frame_distance.sense2_frame)]
       ELSE None,
   explanation |-> p.explanation,
   context_words |-> p.context_words,
   validation |->
     IF p.validation # None
       THEN [distributional_valid |-> p.validation.distributional_valid,
             distributional_explanation |-> p.validation.distributional_explanation,
             substitution_valid |-> p.validation.substitution_valid,
             substitution_explanation |-> p.validation.substitution_explanation,
             overall_confidence |-> p.validation.overall_confidence]
       ELSE None,
   confidence |-> p.confidence]

\* Variant of to_dict: only the puns that carry a validation are written.
to_dict_ValidatedOnly(r) ==
  LET kept == SelectSeq(r.puns, LAMBDA p : p.validation # None)
  IN [sentence |-> r.sentence,
      has_pun |-> r.has_pun,
      puns |-> [i \in 1..Len(kept) |-> PunDict(kept[i])],
      analysis_notes |-> r.analysis_notes]

\* PunAnalysisResult.to_dict (raw_llm_response is not written).
to_dict(r) ==
  [sentence |-> r.sentence,
   has_pun |-> r.has_pun,
   puns |-> [i \in 1..Len(r.puns) |-> PunDict(r.puns[i])],
   analysis_notes |-> r.analysis_notes]

\* What a reader of the exchange format gets back: the sentence, has_pun and
\* the number of entries of "puns".
ReadBack(d) == [sentence |-> d["sentence"], has_pun |-> d["has_pun"], n_puns |-> Len(d["puns"])]

\* The caller serialises the result analyze returned (cli.py 173, api.py).
ToDict ==
  /\ pc = "returned"
  /\ ~result.raised
  /\ last_query = None
  /\ last_query' = [target |-> "result", op |-> "to_dict", args |-> << >>,
                    raised |-> FALSE, value |-> to_dict(result.value)]
  /\ UNCHANGED <<client, config, threads, frame_cache, pc, locals, calls, result, batch>>

ExchangeNext ==
  \/ /\ pc = "idle"
     /\ \E s \in Sentences, response \in PrimaryResponses : Analyze(s, response)
  \/ \E response \in EstimationResponses : BuildPun(response)
  \/ \E response1 \in SenseActivationResponses, response2 \in SubstitutionResponses :
       ValidatePun(response1, response2)
  \/ ToDict

\* One configured engine serving one analyze call whose result is serialised.
ExchangeInit == Init /\ client /\ relatedFrameAttr = available

ExchangeSpec == ExchangeInit /\ [][ExchangeNext]_vars

(***************************************************************************)
(* PunIdentificationEngine.analyze_batch: one analyze call per sentence,   *)
(* in order.                                                               *)
(***************************************************************************)
BatchPool == <<"Time flies like an arrow", "I used to be a banker">>

\* The lists of at most MaxBatch sentences.
BatchSentences ==
  {[i \in 1..n |-> BatchPool[((i - 1) % Len(BatchPool)) + 1]] : n \in 0..MaxBatch}

\* What the primary call of an item's analysis may give: a failure, an
\* object with one candidate, an object with no candidate, prose.
BatchResponses ==
  {LLMFailure,
   Return(ObjectText(1, <<PoolOrder[1]>>, TRUE)),
   Return(ObjectText(0, << >>, FALSE)),
   Return(<<TProse>>)}

\* analyze_batch is called: the comprehension starts; on the empty list it
\* returns the empty list at once.
StartBatch(sentences) ==
  /\ pc = "idle"
  /\ batch = None
  /\ batch' = [sentences |-> sentences, results |-> << >>, done |-> 0, failed_at |-> 0,
               outcome |-> IF sentences = << >> THEN Return(<< >>) ELSE None]
  /\ UNCHANGED <<client, config, threads, frame_cache, pc, locals, calls, result, last_query>>

\* The comprehension calls analyze on the next sentence.
BatchAnalyze(response) ==
  /\ batch # None
  /\ batch.outcome = None
  /\ Analyze(batch.sentences[batch.done + 1], response)

BatchNext ==
  \/ \E sentences \in BatchSentences : StartBatch(sentences)
  \/ \E response \in BatchResponses : BatchAnalyze(response)
  \/ \E response \in EstimationResponses : BuildPun(response)
  \/ \E response1 \in SenseActivationResponses, response2 \in SubstitutionResponses :
       ValidatePun(response1, response2)

\* One engine with the corpus loaded, serving one analyze_batch call.
BatchInit == Init /\ available /\ ~spacy_available

BatchSpec == BatchInit /\ [][BatchNext]_vars

(***************************************************************************)
(* Direct calls of the frame providers and services, by a caller other     *)
(* than the engine.  target names the object called:                       *)
(*   nltk_only_provider, nltk_only_service                                 *)
(*       NLTKFrameNetProvider and FrameNetService of                       *)
(*       src/PunID/pie/framenet_service.py                                 *)
(*   nltk_provider, estimated_provider, service                            *)
(*       NLTKFrameNetProvider, EstimatedFrameNetProvider and               *)
(*       FrameNetService of src/PunID/pie/pie/framenet_service.py          *)
(* last_query records the call and what it returned.                      *)
(***************************************************************************)
Targets ==
  {"nltk_only_provider", "nltk_only_service", "nltk_provider", "estimated_provider",
   "service"}

Query(target, op, args, ret) ==
  [target |-> target, op |-> op, args |-> args, raised |-> ret.raised,
   value |-> IF ret.raised THEN None ELSE ret.value]

get_frames_for_word(target, word, pos) ==
  CASE target = "nltk_only_provider" ->
         NltkOnly_Provider_get_frames_for_word(available, word, pos)
    [] target = "nltk_only_service" ->
         NltkOnly_Service_get_frames_for_word(available, word, pos)
    [] target = "nltk_provider" ->
         NLTKFrameNetProvider_get_frames_for_word(available, word, pos)
    [] target = "estimated_provider" ->
         EstimatedFrameNetProvider_get_frames_for_word(word, pos)
    [] target = "service" ->
         FrameNetService_get_frames_for_word(available, word, pos)

QueryFramesForWord(target, word, pos) ==
  /\ pc = "idle"
  /\ last_query' = Query(target, "get_frames_for_word", <<word, pos>>,
                         get_frames_for_word(target, word, pos))
  /\ UNCHANGED <<client, config, threads, frame_cache, pc, locals, calls, result, batch>>

\* The call's return and the cache as the call leaves it.
get_frame_by_name(target, frame_name) ==
  CASE target = "nltk_only_provider" ->
         [ret |-> NltkOnly_Provider_get_frame_by_name(available, frame_name),
          cache |-> frame_cache]
    [] target = "nltk_only_service" ->
         [ret |-> NltkOnly_Service_get_frame_by_name(available, frame_name),
          cache |-> frame_cache]
    [] target = "nltk_provider" ->
         [ret |-> NLTKFrameNetProvider_get_frame_by_name(available, frame_name),
          cache |-> frame_cache]
    [] target = "estimated_provider" ->
         LET r == EstimatedFrameNetProvider_get_frame_by_name(frame_cache, frame_name)
         IN [ret |-> r, cache |-> r.cache]
    [] target = "service" ->
         LET r == FrameNetService_get_frame_by_name(available, frame_cache, frame_name)
         IN [ret |-> r, cache |-> r.cache]

QueryFrameByName(target, frame_name) ==
  /\ pc = "idle"
  /\ last_query' = Query(target, "get_frame_by_name", <<frame_name>>,
                         get_frame_by_name(target, frame_name).ret)
  /\ frame_cache' = get_frame_by_name(target, frame_name).cache
  /\ UNCHANGED <<client, config, threads, pc, locals, calls, result, batch>>

\* Two calls of get_frame_by_name in a row with the same name: what each
\* returned and the number of cache entries each changed.
QueryFrameByNameTwice(target, frame_name) ==
  /\ pc = "idle"
  /\ LET first == get_frame_by_name(target, frame_name)
         cache1 == first.cache
         second ==
           CASE target = "estimated_provider" ->
                  EstimatedFrameNetProvider_get_frame_by_name(cache1, frame_name)
             [] target = "service" ->
                  FrameNetService_get_frame_by_name(available, cache1, frame_name)
             [] OTHER -> [raised |-> first.ret.raised, value |-> first.ret.value,
                          cache |-> cache1]
     IN /\ last_query' = [target |-> target, op |-> "get_frame_by_name_twice",
                          args |-> <<frame_name>>,
                          raised |-> first.ret.raised \/ second.raised,
                          first |-> first.ret.value, value |-> second.value,
                          changes1 |-> CacheChanges(frame_cache, cache1),
                          changes2 |-> CacheChanges(cache1, second.cache)]
        /\ frame_cache' = second.cache
  /\ UNCHANGED <<client, config, threads, pc, locals, calls, result, batch>>

\* The call's return and the cache as the call leaves it.
query_frame_distance(target, frame1, frame2) ==
  CASE target = "nltk_only_provider" ->
         [ret |-> NltkOnly_Provider_calculate_frame_distance(available, frame1, frame2),
          cache |-> frame_cache]
    [] target = "nltk_only_service" ->
         [ret |-> NltkOnly_Service_calculate_frame_distance(available, frame1, frame2),
          cache |-> frame_cache]
    [] target = "nltk_provider" ->
         [ret |-> NLTKFrameNetProvider_calculate_frame_distance(
                    available, relatedFrameAttr, frame1, frame2),
          cache |-> frame_cache]
    [] target = "estimated_provider" ->
         [ret |-> EstimatedFrameNetProvider_calculate_frame_distance(frame1, frame2),
          cache |-> frame_cache]
    [] target = "service" ->
         LET r == FrameNetService_calculate_frame_distance(
                    available, relatedFrameAttr, frame_cache, frame1, frame2)
         IN [ret |-> r, cache |-> r.cache]

QueryFrameDistance(target, frame1, frame2) ==
  /\ pc = "idle"
  /\ last_query' = Query(target, "calculate_frame_distance", <<frame1, frame2>>,
                         query_frame_distance(target, frame1, frame2).ret)
  /\ frame_cache' = query_frame_distance(target, frame1, frame2).cache
  /\ UNCHANGED <<client, config, threads, pc, locals, calls, result, batch>>

ProviderNext ==
  \/ \E target \in Targets, word \in Words, pos \in PosTags :
       QueryFramesForWord(target, word, pos)
  \/ \E target \in Targets, frame_name \in FrameNames : QueryFrameByName(target, frame_name)
  \/ \E target \in Targets, frame_name \in FrameNames :
       QueryFrameByNameTwice(target, frame_name)
  \/ \E target \in Targets, frame1 \in FrameNames, frame2 \in FrameNames :
       QueryFrameDistance(target, frame1, frame2)

\* calculate_frame_distance called on (frame1, frame2) and then on (frame2,
\* frame1): the distance each call returned.
QueryFrameDistanceBothOrders(target, frame1, frame2) ==
  /\ pc = "idle"
  /\ LET forward == query_frame_distance(target, frame1, frame2)
         backward ==
           IF target = "service"
             THEN LET r == FrameNetService_calculate_frame_distance(
                             available, relatedFrameAttr, forward.cache, frame2, frame1)
                  IN [ret |-> r, cache |-> r.cache]
             ELSE query_frame_distance(target, frame2, frame1)
         DistanceOf(ret) ==
           IF target \in {"nltk_only_service", "service"} THEN ret.value.distance
           ELSE ret.value[1]
     IN /\ last_query' = [target |-> target, op |-> "calculate_frame_distance_both_orders",
                          args |-> <<frame1, frame2>>,
                          raised |-> forward.ret.raised \/ backward.ret.raised,
                          value |-> forward.ret.value,
                          forward |-> DistanceOf(forward.ret),
                          backward |-> DistanceOf(backward.ret)]
        /\ frame_cache' = backward.cache
  /\ UNCHANGED <<client, config, threads, pc, locals, calls, result, batch>>

SymmetryNext ==
  \E target \in Targets, frame1 \in FrameNames, frame2 \in FrameNames :
    QueryFrameDistanceBothOrders(target, frame1, frame2)

\* The frame providers and services of a fresh process under direct calls;
\* the engine's own settings play no part in them.
ProviderInit == Init /\ ~client /\ ~validate /\ ~spacy_available

ProviderSpec == ProviderInit /\ [][ProviderNext]_vars

SymmetrySpec == ProviderInit /\ [][SymmetryNext]_vars

(***************************************************************************)
(* Direct calls of PunValidator.validate_pun, by a caller other than the   *)
(* engine: on puns whose frame distance is absent, unresolved or resolved. *)
(***************************************************************************)
DirectFrameDistances ==
  {None} \cup {FrameDistance(None, None, d, "graph", << >>) :
                 d \in {Dist(-1), Dist(0), Dist(1), 49, Dist(5), 51, MaxEstTenths}}

DirectPuns == {build_pun_instance(PoolOrder[1], fd) : fd \in DirectFrameDistances}

ValidatePunDirect(s, pun, response1, response2) ==
  /\ pc = "idle"
  /\ LET v == PunValidator_validate_pun(client, spacy_available, s, pun, response1, response2)
     IN last_query' = [target |-> "validator", op |-> "validate_pun", args |-> <<s, pun>>,
                       responses |-> <<response1, response2>>,
                       raised |-> v.raised, value |-> v.value,
                       llm_calls |-> IF client THEN 2 ELSE 0]
  /\ UNCHANGED <<client, config, threads, frame_cache, pc, locals, calls, result, batch>>

\* A direct call of LLMValidator.validate_sense_activation.
ValidateSenseActivationDirect(response) ==
  /\ pc = "idle"
  /\ LET r == LLMValidator_validate_sense_activation(client, response)
     IN last_query' = [target |-> "validator", op |-> "validate_sense_activation",
                       args |-> << >>, responses |-> <<response>>,
                       raised |-> r.raised, value |-> r.value,
                       llm_calls |-> IF client THEN 1 ELSE 0]
  /\ UNCHANGED <<client, config, threads, frame_cache, pc, locals, calls, result, batch>>

\* A direct call of LLMValidator.validate_substitution.
ValidateSubstitutionDirect(response) ==
  /\ pc = "idle"
  /\ LET r == LLMValidator_validate_substitution(client, response)
     IN last_query' = [target |-> "validator", op |-> "validate_substitution",
                       args |-> << >>, responses |-> <<response>>,
                       raised |-> r.raised, value |-> r.value,
                       llm_calls |-> IF client THEN 1 ELSE 0]
  /\ UNCHANGED <<client, config, threads, frame_cache, pc, locals, calls, result, batch>>

ValidatorNext ==
  \/ \E s \in Sentences, pun \in DirectPuns,
        response1 \in SenseActivationResponses, response2 \in SubstitutionResponses :
       ValidatePunDirect(s, pun, response1, response2)
  \/ \E response \in SenseActivationResponses : ValidateSenseActivationDirect(response)
  \/ \E response \in SubstitutionResponses : ValidateSubstitutionDirect(response)

ValidatorInit == Init /\ ~validate /\ ~available

ValidatorSpec == ValidatorInit /\ [][ValidatorNext]_vars

(***************************************************************************)
(* Concurrent analyses on the one engine of api.get_engine: every request  *)
(* thread calls analyze on the same PunIdentificationEngine, hence on the  *)
(* same EstimatedFrameNetProvider._frame_cache.  No lock guards the cache  *)
(* anywhere in the package, so the threads interleave between the          *)
(* statements of get_frame_by_name and cache_frame.  The steps are those   *)
(* an analysis takes for one frame name of a candidate when the corpus is  *)
(* not loaded: the membership test of get_frame_by_name, its placeholder   *)
(* insert, and the cache_frame of the estimated frame.                     *)
(***************************************************************************)
ConcurrentNames == {"Motion", "Travel"}

\* The thread table after thread t has moved to pc_after on frame_name,
\* having written the cache entry of that name or not.
thread_step(t, pc_after, frame_name, written) ==
  [u \in Threads |->
     IF u = t
       THEN [pc |-> pc_after, frame_name |-> frame_name,
             wrote |-> IF written THEN threads[u].wrote \cup {frame_name}
                       ELSE threads[u].wrote]
       ELSE [threads[u] EXCEPT !.wrote = IF written THEN @ \ {frame_name} ELSE @]]

\* EstimatedFrameNetProvider.get_frame_by_name, line 180: the test
\* "frame_name in self._frame_cache".  A cached frame is returned at once;
\* otherwise the thread goes on to build and insert the placeholder.
ThreadCheck(t, frame_name) ==
  /\ threads[t].pc = "idle"
  /\ threads' = thread_step(t, IF frame_cache[frame_name] # None THEN "looked" ELSE "insert",
                            frame_name, FALSE)
  /\ UNCHANGED <<client, config, frame_cache, pc, locals, calls, result, last_query, batch>>

\* get_frame_by_name, line 190: self._frame_cache[frame_name] = frame.
ThreadInsertedCache(cache, frame_name) ==
  [cache EXCEPT ![frame_name] = PlaceholderFrame(frame_name)]

\* get_frame_by_name, lines 183-191: the placeholder is inserted and returned.
ThreadInsert(t) ==
  /\ threads[t].pc = "insert"
  /\ frame_cache' = ThreadInsertedCache(frame_cache, threads[t].frame_name)
  /\ threads' = thread_step(t, "looked", threads[t].frame_name, TRUE)
  /\ UNCHANGED <<client, config, pc, locals, calls, result, last_query, batch>>

\* _estimate_frame_distance_via_llm for the name looked up: a failed call
\* writes nothing (lines 345-353), an answered one caches the estimated
\* frame (cache_estimated_frame, lines 334-335).
ThreadCacheFrame(t, response) ==
  /\ threads[t].pc = "looked"
  /\ IF response.raised
       THEN /\ threads' = thread_step(t, "idle", "", FALSE)
            /\ UNCHANGED frame_cache
       ELSE /\ frame_cache' = FrameNetService_cache_estimated_frame(
                                frame_cache,
                                FrameInfo(threads[t].frame_name,
                                          EstimatedDefinition(response.value, 1), "", << >>))
            /\ threads' = thread_step(t, "idle", threads[t].frame_name, TRUE)
  /\ UNCHANGED <<client, config, pc, locals, calls, result, last_query, batch>>

ConcurrentNext ==
  \/ \E t \in Threads, frame_name \in ConcurrentNames : ThreadCheck(t, frame_name)
  \/ \E t \in Threads : ThreadInsert(t)
  \/ \E t \in Threads, response \in EstimationResponses : ThreadCacheFrame(t, response)

\* A configured engine without the corpus, shared by the request threads.
ConcurrentInit == Init /\ client /\ ~available

ConcurrentSpec == ConcurrentInit /\ [][ConcurrentNext]_vars

(***************************************************************************)
(* Properties.                                                             *)
(***************************************************************************)

\* An analyze call has returned a PunAnalysisResult.
Returned == pc = "returned" /\ ~result.raised

\* The puns of the returned result.
ResultPuns == result.value.puns

\* C1: analyze on an engine with no LLM client attached fails with the
\* configuration error, and it has made no LLM call, no frame lookup, no
\* cache write and no validator call.
C1_UnconfiguredFailsBeforeWork ==
  (pc = "returned" /\ ~client) =>
    /\ result = Raise("RuntimeError: Engine not configured")
    /\ calls = NoCalls
    /\ frame_cache = EmptyCache
    /\ raw_response = None /\ puns = << >> /\ todo = << >>

C1_Witness ==
  pc = "returned" /\ ~client /\ result = Raise("RuntimeError: Engine not configured")

\* C2: every returned result has has_pun = 1 exactly when its puns list is
\* non-empty and has_pun = 0 exactly when it is empty, whatever has_pun the
\* response declared.
C2_HasPunIffPuns ==
  Returned =>
    /\ result.value.has_pun \in {0, 1}
    /\ (result.value.has_pun = 1) <=> (ResultPuns # << >>)
    /\ (result.value.has_pun = 0) <=> (ResultPuns = << >>)

\* The response declared has_pun = 1 with no candidate, and has_pun is 0.
C2_Witness ==
  /\ Returned
  /\ \E i \in 1..Len(raw_response.text) : raw_response.text[i] = THasPun(1)
  /\ ResultPuns = << >>
  /\ result.value.has_pun = 0
  /\ result.value.analysis_notes # "Failed to parse response"

\* C3: the confidence of every pun of every returned result is in [0.0, 1.0].
C3_ConfidenceInRange ==
  Returned =>
    \A i \in 1..Len(ResultPuns) :
      ResultPuns[i].confidence >= 0 /\ ResultPuns[i].confidence <= Conf(1)

\* Both checks passed on a pun with a positive frame distance: the bonus
\* would take the total past 1.0.
C3_Witness ==
  /\ Returned
  /\ \E i \in 1..Len(ResultPuns) :
       /\ ResultPuns[i].validation # None
       /\ ResultPuns[i].validation.distributional_valid
       /\ ResultPuns[i].validation.substitution_valid
       /\ ResultPuns[i].frame_distance.distance >= Dist(5)
       /\ ResultPuns[i].confidence = Conf(1)

\* C4: no pun of a returned result carries the sentinel -1: its frame
\* distance is attached and >= 0, whatever the frame lookup and the
\* estimation call gave.
C4_NoSentinelInResult ==
  Returned =>
    \A i \in 1..Len(ResultPuns) :
      /\ ResultPuns[i].frame_distance # None
      /\ ResultPuns[i].frame_distance.distance >= 0

\* The corpus is loaded, its relation inspection failed, and the estimation
\* call that followed failed too.
C4_Witness ==
  /\ Returned
  /\ available /\ ~relatedFrameAttr
  /\ calls.estimate > 0
  /\ \E i \in 1..Len(ResultPuns) :
       /\ ResultPuns[i].frame_distance.distance_type = "default"
       /\ ResultPuns[i].frame_distance.distance = Dist(5)

\* A direct call of op has returned.
Queried(op) == last_query # None /\ last_query.op = op

\* The providers return the tuple (distance, explanation), the services a
\* FrameDistance: the distance and the explanation of either.
IsService(target) == target \in {"nltk_only_service", "service"}

QueriedDistance ==
  IF IsService(last_query.target) THEN last_query.value.distance ELSE last_query.value[1]

QueriedExplanation ==
  IF IsService(last_query.target) THEN last_query.value.explanation ELSE last_query.value[2]

\* The objects that answer from the NLTK corpus alone.
NltkTargets == {"nltk_only_provider", "nltk_only_service", "nltk_provider"}

\* C5 as stated: for every frame name A and every state of the knowledge
\* provider, frameDistance(A, A) returns distance 0 with "Same frame".
C5_SelfDistanceAlwaysZero ==
  (Queried("calculate_frame_distance") /\ last_query.args[1] = last_query.args[2]) =>
    /\ ~last_query.raised
    /\ QueriedDistance = Dist(0)
    /\ QueriedExplanation = <<"Same frame">>

\* C5 amended: frameDistance(A, A) returns distance 0 with "Same frame" on
\* the estimated provider and on the engine's frame service always, and on
\* the NLTK providers and the NLTK-only service when the corpus is loaded;
\* with the corpus not loaded these return -1, "FrameNet not available".
C5_SelfDistanceZeroWhenLoaded ==
  (Queried("calculate_frame_distance") /\ last_query.args[1] = last_query.args[2]) =>
    /\ ~last_query.raised
    /\ IF last_query.target \in NltkTargets /\ ~available
         THEN /\ QueriedDistance = Dist(-1)
              /\ QueriedExplanation = <<"FrameNet not available">>
         ELSE /\ QueriedDistance = Dist(0)
              /\ QueriedExplanation = <<"Same frame">>

\* The loaded NLTK-only provider was asked for the distance of a corpus
\* frame from itself.
C5_Witness ==
  /\ Queried("calculate_frame_distance")
  /\ last_query.target = "nltk_only_provider"
  /\ available
  /\ last_query.args = <<"Motion", "Motion">>
  /\ last_query.value = <<Dist(0), <<"Same frame">> >>

\* C6: with the corpus not loaded, for every input, framesForWord returns
\* the empty list, frameByName returns absent, frameDistance returns -1 with
\* "FrameNet not available", and none of them raises (the NLTK providers and
\* the NLTK-only service).
C6_UnavailableDegrades ==
  (last_query # None /\ ~available /\ last_query.target \in NltkTargets) =>
    /\ ~last_query.raised
    /\ last_query.op = "get_frames_for_word" => last_query.value = << >>
    /\ last_query.op = "get_frame_by_name" => last_query.value = None
    /\ last_query.op = "calculate_frame_distance" =>
         /\ QueriedDistance = Dist(-1)
         /\ QueriedExplanation = <<"FrameNet not available">>
         /\ IsService(last_query.target) =>
              /\ last_query.value.sense1_frame = None
              /\ last_query.value.sense2_frame = None

\* The NLTK-only service, its corpus not loaded, was asked for the distance
\* of two corpus frames.
C6_Witness ==
  /\ Queried("calculate_frame_distance")
  /\ ~available
  /\ last_query.target = "nltk_only_service"
  /\ last_query.args = <<"Motion", "Travel">>
  /\ last_query.value.distance = Dist(-1)

\* The text decodes neither as a whole nor through the brace match.
Undecodable(text) ==
  /\ JsonLoads(text).raised
  /\ ~BraceMatch(text).matched \/ JsonLoads(BraceMatch(text).value).raised

\* C7: when the primary response decodes neither as a whole nor through the
\* brace-delimited substring, analyze returns a result with has_pun = 0, no
\* puns and notes stating that parsing failed.
C7_UndecodableGivesEmptyResult ==
  (pc = "returned" /\ raw_response # None /\ Undecodable(raw_response.text)) =>
    /\ ~result.raised
    /\ result.value.has_pun = 0
    /\ result.value.puns = << >>
    /\ result.value.analysis_notes = "Failed to parse response"

\* The response holds a brace-delimited substring, an object followed by
\* prose with braces of its own, and it does not decode.
C7_Witness ==
  /\ pc = "returned" /\ raw_response # None
  /\ BraceMatch(raw_response.text).matched
  /\ \E i \in 1..Len(raw_response.text) : raw_response.text[i].t = "cand"
  /\ Undecodable(raw_response.text)
  /\ ~result.raised
  /\ result.value.analysis_notes = "Failed to parse response"

\* C8: the raw_llm_response of every returned result is the text the
\* primary LLM call returned, whichever way it was parsed.
C8_RawResponseVerbatim ==
  Returned => raw_response # None /\ result.value.raw_llm_response = raw_response.text

\* The response was prose followed by an object: the brace match decoded it.
C8_Witness ==
  /\ Returned
  /\ raw_response # None /\ Len(raw_response.text) > 0
  /\ raw_response.text[1] = TProse
  /\ ResultPuns # << >>
  /\ result.value.raw_llm_response[1] = TProse

\* Both validator checks failed for pun i of the returned result.
BothChecksFailed(i) ==
  /\ ResultPuns[i].validation # None
  /\ ~ResultPuns[i].validation.distributional_valid
  /\ ~ResultPuns[i].validation.substitution_valid

\* C9 as stated: when both checks fail for a candidate its confidence is
\* exactly 0.0, for every attached frame distance.
C9_BothFailGivesZero ==
  Returned =>
    \A i \in 1..Len(ResultPuns) : BothChecksFailed(i) => ResultPuns[i].confidence = 0

\* C9 amended: when both checks fail for a candidate its confidence is the
\* frame-distance bonus alone, min(0.2, distance * 0.04): 0.0 when the
\* attached distance is 0 and more otherwise.
C9_BothFailGivesBonus ==
  Returned =>
    \A i \in 1..Len(ResultPuns) :
      BothChecksFailed(i) =>
        /\ ResultPuns[i].confidence = Min(BonusCap, ResultPuns[i].frame_distance.distance * 4)
        /\ (ResultPuns[i].confidence = 0) <=> (ResultPuns[i].frame_distance.distance = 0)

\* Both checks failed on a pun at frame distance 1.0: its confidence is 0.04.
C9_Witness ==
  /\ Returned
  /\ \E i \in 1..Len(ResultPuns) :
       /\ BothChecksFailed(i)
       /\ ResultPuns[i].frame_distance.distance = Dist(1)
       /\ ResultPuns[i].confidence = 40

\* The bonus as C10 states it, for a frame distance or None.
StatedBonus(frame_distance) ==
  IF frame_distance # None /\ frame_distance.distance >= 0
    THEN Min(200, frame_distance.distance * 4)
    ELSE 0

\* C10: validate_pun gives overall_confidence =
\* min(1.0, 0.5 * [distributional passed] + 0.5 * [substitution passed] + bonus),
\* bonus = min(0.2, distance * 0.04) for an attached distance >= 0 and 0
\* otherwise; its only LLM calls are those of the two checks.
C10_ConfidenceFormula ==
  Queried("validate_pun") =>
    LET v == last_query.value
        pun == last_query.args[2]
    IN /\ ~last_query.raised
       /\ v.overall_confidence =
            Min(1000, (IF v.distributional_valid THEN 500 ELSE 0)
                        + (IF v.substitution_valid THEN 500 ELSE 0)
                        + StatedBonus(pun.frame_distance))
       /\ last_query.llm_calls \in {0, 2}

\* One check passed and the other failed on a pun at a frame distance past
\* 5.0: the confidence is 0.5 + 0.2.
C10_Witness ==
  /\ Queried("validate_pun")
  /\ last_query.args[2].frame_distance # None
  /\ last_query.args[2].frame_distance.distance > Dist(5)
  /\ last_query.value.distributional_valid
  /\ ~last_query.value.substitution_valid
  /\ last_query.value.overall_confidence = 700
\* The candidates the primary response decoded to.
DecodedCandidates == parse_llm_response(raw_response.text).puns

\* C11: once the engine is configured and the primary call has returned
\* text, analyze returns a PunAnalysisResult and never raises, for every
\* response text.
C11_NeverRaisesAfterPrimaryText ==
  (pc = "returned" /\ raw_response # None) => ~result.raised

\* C12: a candidate whose declared label matches none of the four categories
\* gives a PunInstance that keeps the label as the raw string in pun_type and
\* has no matched category.
C12_UnknownLabelKept ==
  Returned =>
    \A i \in 1..Len(ResultPuns) :
      Upper(Get(DecodedCandidates[i], "pun_type", "HOMOGRAPHIC")) \notin PunType =>
        /\ ResultPuns[i].pun_type = DecodedCandidates[i].pun_type
        /\ ResultPuns[i].pun_type_enum = None

\* The declared label of a candidate is a string or is missing.
LabelsDeclared(cands) == \A i \in 1..Len(cands) : ~PunTypeRaises(cands[i])

\* C13: for a primary response that decodes to an object with n candidates,
\* analyze returns a result with exactly n PunInstances in the candidates'
\* order, each with the candidate's word_or_expression, sense1, sense2 and
\* explanation (the empty string for a field the candidate lacks) and, for a
\* label that is one of the four categories in any letter case, that
\* category as its pun type.
C13_InstancesFollowCandidates ==
  (/\ pc = "returned" /\ raw_response # None
   /\ parse_llm_response(raw_response.text).kind = "dict"
   /\ LabelsDeclared(DecodedCandidates)) =>
    /\ ~result.raised
    /\ Len(ResultPuns) = Len(DecodedCandidates)
    /\ \A i \in 1..Len(ResultPuns) :
         LET c == DecodedCandidates[i]
             p == ResultPuns[i]
         IN /\ p.word_or_expression = Get(c, "word_or_expression", "")
            /\ p.sense1 = Get(c, "sense1", "")
            /\ p.sense2 = Get(c, "sense2", "")
            /\ p.explanation = Get(c, "explanation", "")
            /\ (c.pun_type # Missing /\ Upper(c.pun_type) \in PunType) =>
                 p.pun_type = Upper(c.pun_type)

\* Two candidates were built in order, the second from a lower-case label.
C13_Witness ==
  /\ Returned
  /\ Len(ResultPuns) = 2
  /\ DecodedCandidates[1].word_or_expression = "flies"
  /\ ResultPuns[1].word_or_expression = "flies"
  /\ ResultPuns[1].pun_type = "HOMOGRAPHIC"
  /\ DecodedCandidates[2].pun_type = "homophonic"
  /\ ResultPuns[2].word_or_expression = "banker"
  /\ ResultPuns[2].pun_type = "HOMOPHONIC"

\* The check made its LLM call and the call returned a text.
CheckAnswered(op) ==
  Queried(op) /\ client /\ ~last_query.responses[1].raised

\* The text holds the marker in some letter case.
ContainsAnyCase(text, lower_marker) == Contains(LowerText(text), lower_marker)

\* C14: validate_sense_activation returns true exactly when the response
\* contains "BOTH_ACTIVATED: yes" in any letter case, and
\* validate_substitution returns true exactly when it contains
\* "TEST_PASSED: yes" in any letter case.
C14_MarkerMatchedInAnyCase ==
  /\ CheckAnswered("validate_sense_activation") =>
       (last_query.value[1] <=>
          ContainsAnyCase(last_query.responses[1].value, "both_activated: yes"))
  /\ CheckAnswered("validate_substitution") =>
       (last_query.value[1] <=>
          ContainsAnyCase(last_query.responses[1].value, "test_passed: yes"))

\* C15: each of the two checks is fail-soft: with no LLM client attached, or
\* when its LLM call fails, it returns (true, an explanatory note) and does
\* not raise; inside validate_pun both checks are run whatever the other
\* gave, and the substitution check's outcome follows its own response.
C15_ChecksFailSoft ==
  /\ (Queried("validate_sense_activation") \/ Queried("validate_substitution")) =>
       /\ ~last_query.raised
       /\ ~client => last_query.value = <<TRUE, <<"LLM validator not configured">> >>
       /\ (client /\ last_query.responses[1].raised) =>
            last_query.value = <<TRUE, <<"Validation error", last_query.responses[1].exc>> >>
  /\ Queried("validate_pun") =>
       LET v == last_query.value
           response1 == last_query.responses[1]
           response2 == last_query.responses[2]
       IN /\ ~last_query.raised
          /\ ~client =>
               /\ v.distributional_valid /\ v.substitution_valid
               /\ v.distributional_explanation = <<"LLM validator not configured">>
               /\ v.substitution_explanation = <<"LLM validator not configured">>
               /\ last_query.llm_calls = 0
          /\ client =>
               /\ last_query.llm_calls = 2
               /\ response1.raised =>
                    /\ v.distributional_valid
                    /\ v.distributional_explanation = <<"Validation error", response1.exc>>
               /\ response2.raised =>
                    /\ v.substitution_valid
                    /\ v.substitution_explanation = <<"Validation error", response2.exc>>
               /\ (~response1.raised /\ Contains(response1.value, "BOTH_ACTIVATED: no")) =>
                    ~v.distributional_valid
               /\ (~response2.raised /\ Contains(response2.value, "TEST_PASSED: no")) =>
                    ~v.substitution_valid

\* Inside validate_pun the first check's call failed and the substitution
\* check still ran and failed the pun on its own response.
C15_Witness ==
  /\ Queried("validate_pun")
  /\ client
  /\ last_query.responses[1].raised
  /\ ~last_query.responses[2].raised
  /\ last_query.value.distributional_valid
  /\ last_query.value.distributional_explanation = <<"Validation error", "APIError">>
  /\ ~last_query.value.substitution_valid

\* C16: the frame-distance estimator never raises to its caller: when its
\* LLM call fails it returns a FrameDistance with distance_type "default",
\* distance 5.0, both frame descriptors absent and an explanation embedding
\* the failure cause, and it changes no entry of the frame cache.
C16_EstimatorFailSoft ==
  calls.last_estimate # None =>
    /\ ~calls.last_estimate.raised
    /\ calls.last_estimate.failed =>
         /\ calls.last_estimate.value =
              FrameDistance(None, None, Dist(5), "default",
                            <<"Could not estimate", calls.last_estimate.cause>>)
         /\ calls.last_estimate.cache_changes = 0

\* An estimation call failed after an earlier one had cached its two frames.
C16_Witness ==
  /\ calls.last_estimate # None
  /\ calls.last_estimate.failed
  /\ calls.last_estimate.cause = "APIError"
  /\ calls.estimate = 2
  /\ calls.estimate_failed = 1
  /\ calls.last_estimate.value.distance = Dist(5)
  /\ \E name \in FrameNames : frame_cache[name] # None

\* A name no frame of the backing corpus answers to: one the corpus does not
\* hold, or any name while the corpus is not loaded.
Unresolvable(frame_name) == frame_name \notin CorpusFrames \/ ~available

\* The objects whose get_frame_by_name is answered by the estimated provider.
AnsweredByEstimator(target) ==
  target = "estimated_provider" \/ (target = "service" /\ ~available)

\* C17 as stated: get_frame_by_name called twice in a row with the same
\* unresolvable name returns absent both times and changes no provider
\* state (no cache entry is created for the name).
C17_TwiceAbsentNoStateChange ==
  (Queried("get_frame_by_name_twice") /\ Unresolvable(last_query.args[1])) =>
    /\ ~last_query.raised
    /\ last_query.first = None /\ last_query.value = None
    /\ last_query.changes1 = 0 /\ last_query.changes2 = 0

\* C17 amended: on the NLTK providers, the NLTK-only service and the engine's
\* service while the corpus is loaded, the two calls return absent and change
\* nothing; the estimated provider, and the engine's service while the corpus
\* is not loaded, return the same descriptor both times (the cached one or a
\* placeholder), the first call creates the cache entry of the name when
\* there was none, and the second call changes nothing.
C17_TwiceSameAnswer ==
  (Queried("get_frame_by_name_twice") /\ Unresolvable(last_query.args[1])) =>
    /\ ~last_query.raised
    /\ last_query.first = last_query.value
    /\ last_query.changes2 = 0
    /\ IF AnsweredByEstimator(last_query.target)
         THEN /\ last_query.value # None
              /\ last_query.value.frame_name = last_query.args[1]
              /\ frame_cache[last_query.args[1]] = last_query.value
              /\ last_query.changes1 <= 1
         ELSE /\ last_query.value = None
              /\ last_query.changes1 = 0

\* The loaded NLTK-only provider was asked twice for a name the corpus does
\* not hold.
C17_Witness ==
  /\ Queried("get_frame_by_name_twice")
  /\ last_query.target = "nltk_only_provider"
  /\ available
  /\ last_query.args = <<"Unknown">>
  /\ last_query.first = None /\ last_query.value = None

\* C18: a failure of the primary analysis call makes analyze fail, with no
\* result, no frame lookup and no later estimation or validator call; a
\* failure of an estimation call or of a validator call never does: past the
\* primary call analyze raises only the AttributeError of a decoded value
\* that is no object or of a null label.
C18_OnlyPrimaryFailureIsFatal ==
  pc = "returned" =>
    /\ calls.primary_failed = 1 =>
         /\ result = Raise("RuntimeError: Failed to get LLM analysis")
         /\ calls.lookup = 0 /\ calls.estimate = 0
         /\ calls.validate_pun = 0 /\ calls.validator_llm = 0
    /\ result = Raise("RuntimeError: Failed to get LLM analysis") =>
         calls.primary_failed = 1
    /\ (calls.primary = 1 /\ calls.primary_failed = 0 /\ result.raised) =>
         /\ result.exc = "AttributeError"
         /\ \/ parse_llm_response(raw_response.text).kind # "dict"
            \/ todo # << >> /\ PunTypeRaises(Head(todo))

\* analyze returned a result although an estimation call and a validator
\* call of it had failed.
C18_Witness ==
  /\ Returned
  /\ calls.primary_failed = 0
  /\ calls.estimate_failed > 0
  /\ calls.validator_failed > 0
  /\ Len(ResultPuns) > 0

\* The analyze_batch call has returned or raised.
BatchFinished == batch # None /\ batch.outcome # None

\* C19 as stated: when the analysis of one sentence of a batch fails, the
\* results of the other sentences are still produced and returned.
C19_FailedItemKeepsSiblings ==
  (BatchFinished /\ batch.failed_at > 0 /\ Len(batch.sentences) > 1) =>
    /\ ~batch.outcome.raised
    /\ batch.done = Len(batch.sentences)
    /\ Len(batch.outcome.value) = Len(batch.sentences) - 1

\* C19 amended: analyze_batch is all-or-nothing: when the analysis of one
\* sentence fails, analyze_batch raises that error, returns no result and
\* does not analyze the sentences after it; when none fails it returns one
\* result per sentence, in the order of the sentences.
C19_FailedItemAbortsBatch ==
  BatchFinished =>
    IF batch.failed_at > 0
      THEN /\ batch.outcome.raised
           /\ batch.outcome = result
           /\ batch.done = batch.failed_at
           /\ Len(batch.results) = batch.failed_at - 1
      ELSE /\ ~batch.outcome.raised
           /\ batch.done = Len(batch.sentences)
           /\ Len(batch.outcome.value) = Len(batch.sentences)
           /\ \A i \in 1..Len(batch.sentences) :
                batch.outcome.value[i].sentence = batch.sentences[i]

\* The first sentence of a batch of two was analysed and the primary call of
\* the second failed: the batch raised with the second sentence's error.
C19_Witness ==
  /\ BatchFinished
  /\ Len(batch.sentences) = 2
  /\ batch.failed_at = 2
  /\ Len(batch.results) = 1
  /\ batch.outcome = Raise("RuntimeError: Failed to get LLM analysis")

\* C20: serialising a returned PunAnalysisResult with to_dict and reading it
\* back preserves the sentence, has_pun and the number of puns.
C20_RoundTripPreserves ==
  Queried("to_dict") =>
    ReadBack(last_query.value) =
      [sentence |-> result.value.sentence, has_pun |-> result.value.has_pun,
       n_puns |-> Len(result.value.puns)]

\* A result of two puns was serialised, the first without validation and
\* with absent frame descriptors.
C20_Witness ==
  /\ Queried("to_dict")
  /\ Len(result.value.puns) = 2
  /\ last_query.value.has_pun = 1
  /\ Len(last_query.value.puns) = 2
  /\ last_query.value.puns[1].validation = None
  /\ last_query.value.puns[1].frame_distance.sense1_frame = None

\* C21: writes to the shared frame cache are serialized: no step of one
\* analysis (the placeholder insert of get_frame_by_name, the cache_frame of
\* an estimated frame) replaces or loses the entry another analysis was the
\* last to write.
C21_NoWriteOverOtherAnalysis ==
  [][\A t \in Threads, name \in FrameNames :
       (name \in threads[t].wrote /\ name \notin threads'[t].wrote)
         => frame_cache'[name] = frame_cache[name]]_vars

\* C22: the frame cache is append-only: a name that is present in the cache
\* is never removed and its cached descriptor is never replaced by a
\* different one.
C22_CacheAppendOnly ==
  [][\A name \in FrameNames :
       frame_cache[name] # None => frame_cache'[name] = frame_cache[name]]_vars

\* The first balanced brace-delimited substring of the text: from the first
\* opening brace to the closing brace that matches it; << >> when the text
\* holds none.
FirstBalanced(text) ==
  LET opens == {i \in 1..Len(text) : text[i].t = "lbrace"}
      Count(kind, i, j) == Cardinality({k \in i..j : text[k].t = kind})
      first == CHOOSE i \in opens : \A k \in opens : k >= i
      closing == {j \in 1..Len(text) : /\ j > first
                                       /\ text[j].t = "rbrace"
                                       /\ Count("lbrace", first, j) = Count("rbrace", first, j)}
  IN IF opens = {} \/ closing = {} THEN << >>
     ELSE SubSeq(text, first, CHOOSE j \in closing : \A k \in closing : k >= j)

\* C23: when the direct decode of the response fails and its first balanced
\* brace-delimited substring is a well-formed object, the result analyze
\* returns holds that object's candidates and notes, not the empty fallback.
C23_FirstBalancedObjectDecoded ==
  (/\ Returned
   /\ JsonLoads(raw_response.text).raised
   /\ ~JsonLoads(FirstBalanced(raw_response.text)).raised) =>
    LET object == JsonLoads(FirstBalanced(raw_response.text)).value
    IN /\ Len(ResultPuns) = Len(object.puns)
       /\ result.value.analysis_notes = Get(object, "analysis_notes", "")

\* The frames that a relation of the corpus joins to the frame.
Neighbors(frame) ==
  {other \in CorpusFrames \ {frame} :
     \E rel \in CorpusRelations :
       {rel.superFrameName, rel.subFrameName} = {frame, other}}

\* C24: for two distinct frame names that both resolve in a loaded corpus,
\* calculate_frame_distance returns 1 exactly when a relation joins the two
\* frames (in either direction), otherwise 2 exactly when their neighbour
\* sets intersect, otherwise 5, and nothing else (the NLTK providers, the
\* NLTK-only service and the engine's frame service).
C24_DistanceFromRelations ==
  (/\ Queried("calculate_frame_distance")
   /\ last_query.target # "estimated_provider"
   /\ available
   /\ last_query.args[1] # last_query.args[2]
   /\ last_query.args[1] \in CorpusFrames
   /\ last_query.args[2] \in CorpusFrames) =>
    /\ ~last_query.raised
    /\ QueriedDistance =
         IF last_query.args[2] \in Neighbors(last_query.args[1]) THEN Dist(1)
         ELSE IF Neighbors(last_query.args[1]) \cap Neighbors(last_query.args[2]) # {}
           THEN Dist(2)
         ELSE Dist(5)

\* What the frame service answers for the two frame names of candidate i.
ProviderDistance(i) ==
  FrameNetService_calculate_frame_distance(
    available, relatedFrameAttr, frame_cache,
    Get(DecodedCandidates[i], "sense1_frame", "Unknown"),
    Get(DecodedCandidates[i], "sense2_frame", "Unknown")).value

\* C25: for each candidate built, the estimator was called exactly when the
\* frame service answered a distance < 0 for its two frame names, and once;
\* a distance >= 0 is attached as the service gave it, without an
\* estimation call.
C25_EstimatedIffUnresolved ==
  (raw_response # None /\ puns # << >>) =>
    LET answered == [i \in 1..Len(puns) |-> ProviderDistance(i)]
    IN /\ \A i \in 1..Len(puns) :
            IF answered[i].distance < 0
              THEN puns[i].frame_distance.distance_type \in {"estimated", "default"}
              ELSE /\ puns[i].frame_distance.distance = answered[i].distance
                   /\ puns[i].frame_distance.distance_type = answered[i].distance_type
                   /\ puns[i].frame_distance.explanation = answered[i].explanation
       /\ calls.estimate = Cardinality({i \in 1..Len(puns) : answered[i].distance < 0})
       /\ calls.lookup = Len(puns)

\* Two candidates were built without the corpus: the first needed the
\* estimator, the second (twice the same frame) did not.
C25_Witness ==
  /\ raw_response # None
  /\ Len(puns) = 2
  /\ ProviderDistance(1).distance < 0
  /\ ProviderDistance(2).distance = Dist(0)
  /\ puns[2].frame_distance.distance = Dist(0)
  /\ calls.estimate = 1

\* C26: while the validation loop runs, every pun has its frame distance
\* attached and resolved (distance >= 0), the puns the loop has passed carry
\* their ValidationResult and the confidence taken from it, the others
\* none; every pun of a result returned with validation enabled carries
\* frame distance, ValidationResult and that confidence.
C26_NoPartialCandidate ==
  /\ pc = "validate" =>
       /\ todo = << >>
       /\ \A i \in 1..Len(puns) :
            /\ puns[i].frame_distance # None
            /\ puns[i].frame_distance.distance >= 0
            /\ IF i <= validated
                 THEN /\ puns[i].validation # None
                      /\ puns[i].confidence = puns[i].validation.overall_confidence
                 ELSE puns[i].validation = None
  /\ (Returned /\ validate) =>
       \A i \in 1..Len(ResultPuns) :
         /\ ResultPuns[i].frame_distance # None
         /\ ResultPuns[i].frame_distance.distance >= 0
         /\ ResultPuns[i].validation # None
         /\ ResultPuns[i].confidence = ResultPuns[i].validation.overall_confidence

\* A validated result with two puns was returned; the estimation answered
\* for the first without a number the pattern accepts, so 5.0 was attached.
C26_Witness ==
  /\ Returned /\ validate
  /\ Len(ResultPuns) = 2
  /\ calls.last_estimate # None
  /\ ~calls.last_estimate.failed
  /\ ResultPuns[1].frame_distance.distance_type = "estimated"
  /\ ResultPuns[1].frame_distance.distance = Dist(5)
  /\ ResultPuns[2].validation # None
  /\ ResultPuns[2].confidence > 0

\* C27: an analyze call that passes the configuration check makes the
\* primary LLM call exactly once (one that fails the check makes no LLM call
\* at all), and no LLM call of the pipeline is made again after a failure:
\* one primary call even when it fails, at most one estimation call per
\* candidate built, two validator calls per pun validated, failed or not.
C27_NoRetry ==
  pc # "idle" =>
    /\ calls.primary =
         IF result # None /\ result.raised /\ result.exc = "RuntimeError: Engine not configured"
           THEN 0 ELSE 1
    /\ calls.primary_failed = 1 => (pc = "returned" /\ result.raised /\ calls.primary = 1)
    /\ calls.lookup = Len(puns)
    /\ calls.estimate <= calls.lookup
    /\ calls.estimate_failed <= calls.estimate
    /\ calls.validator_llm = 2 * validated
    /\ calls.validator_failed <= calls.validator_llm
    /\ calls.primary = 0 => calls.estimate + calls.validator_llm = 0

\* An analysis returned in which an estimation call and a validator call
\* failed, each made once.
C27_Witness ==
  /\ Returned
  /\ calls.primary = 1
  /\ calls.estimate = 1 /\ calls.estimate_failed = 1
  /\ validated = 1
  /\ calls.validator_llm = 2 /\ calls.validator_failed >= 1

\* C28: analyze_batch takes the sentences one after another in their order:
\* the i-th result collected is the one analyze returned for the i-th
\* sentence, and when no item fails the list returned holds one result per
\* sentence.  An item's analysis starts from nothing but the engine and its
\* frame cache: its sentence, its one primary call, its candidates and its
\* lookups are its own, whatever the items before it left.
C28_BatchIsSequentialAnalyze ==
  batch # None =>
    /\ Len(batch.results) <= Len(batch.sentences)
    /\ \A i \in 1..Len(batch.results) : batch.results[i].sentence = batch.sentences[i]
    /\ batch.failed_at = 0 => Len(batch.results) = batch.done
    /\ (batch.done > 0 /\ batch.failed_at = 0 /\ pc = "returned") =>
         (~result.raised /\ batch.results[batch.done] = result.value)
    /\ (batch.outcome # None /\ ~batch.outcome.raised) =>
         /\ batch.outcome.value = batch.results
         /\ Len(batch.outcome.value) = Len(batch.sentences)
    /\ pc \in {"build", "validate"} =>
         /\ batch.outcome = None
         /\ sentence = batch.sentences[batch.done + 1]
         /\ calls.primary = 1
         /\ calls.lookup = Len(puns)
         /\ Len(puns) + Len(todo) = Len(DecodedCandidates)
         /\ validated <= Len(puns)

\* A batch of two different sentences returned two results; the first
\* analysis left estimated frames in the cache and the second found a pun too.
C28_Witness ==
  /\ BatchFinished
  /\ ~batch.outcome.raised
  /\ Len(batch.outcome.value) = 2
  /\ batch.outcome.value[1].sentence # batch.outcome.value[2].sentence
  /\ frame_cache # EmptyCache
  /\ batch.outcome.value[2].has_pun = 1

\* C29: the distance calculate_frame_distance returns for (A, B) equals the
\* one it returns for (B, A), on every provider and service, for every pair
\* of names, with the corpus loaded or not and each name a frame of it or not.
C29_DistanceSymmetric ==
  Queried("calculate_frame_distance_both_orders") =>
    /\ ~last_query.raised
    /\ last_query.forward = last_query.backward

\* The loaded NLTK provider was asked about a corpus frame and a name the
\* corpus does not hold, in both orders: -1 either way.
C29_Witness ==
  /\ Queried("calculate_frame_distance_both_orders")
  /\ available
  /\ last_query.target = "nltk_provider"
  /\ last_query.args = <<"Motion", "Unknown">>
  /\ last_query.forward = Dist(-1)
  /\ last_query.backward = Dist(-1)

\* C30 as stated: every frame distance attached to a pun of a returned
\* result lies between 0 and 10, whatever number the estimation response
\* puts after DISTANCE:.
C30_DistanceInRange ==
  Returned =>
    \A i \in 1..Len(ResultPuns) :
      /\ ResultPuns[i].frame_distance.distance >= Dist(0)
      /\ ResultPuns[i].frame_distance.distance <= Dist(10)

\* C30 amended: every frame distance attached to a pun of a returned result
\* is non-negative: 0, 1, 2 or 5 from the frame service, 5 when the
\* estimation call failed or its response has no unsigned number after
\* DISTANCE:, and otherwise the number of the response as it stands, with
\* no upper limit applied.
C30_DistanceNonNegativeUnclamped ==
  Returned =>
    \A i \in 1..Len(ResultPuns) :
      LET fd == ResultPuns[i].frame_distance
      IN /\ fd.distance >= Dist(0)
         /\ fd.distance_type \in {"graph", "estimated", "default"}
         /\ fd.distance_type = "graph" => fd.distance \in {Dist(0), Dist(1), Dist(2), Dist(5)}
         /\ fd.distance_type = "default" => fd.distance = Dist(5)
         /\ fd.distance_type = "estimated" =>
              fd.distance \in {Dist(0), Dist(5)} \cup
                {t.distance.tenths : t \in {e \in EstimationTexts : e.distance.form = "plain"}}

\* A result was returned whose pun carries the estimated distance the
\* response gave, above 10.
C30_Witness ==
  /\ Returned
  /\ Len(ResultPuns) > 0
  /\ ResultPuns[1].frame_distance.distance_type = "estimated"
  /\ ResultPuns[1].frame_distance.distance = MaxEstTenths
  /\ ResultPuns[1].frame_distance.distance > Dist(10)

====
